---- MODULE Spec2Model ----
(***************************************************************************)
(* go-neuron: multi-layer networks whose neurons are goroutines that talk  *)
(* over unbuffered channels (neuron.go, net.go, optim.go, activations.go). *)
(*                                                                         *)
(* Floating point values are modelled by integers (exact arithmetic): the  *)
(* rounding of float64 operations is not modelled.                         *)
(* An unbuffered channel holds nothing: a send and the matching receive    *)
(* are one step of the model, enabled when the sender stands at the send   *)
(* and the receiver at the receive.                                        *)
(***************************************************************************)
EXTENDS Integers, Sequences, FiniteSets, TLC

VARIABLES
  archArg,    \* the argument of NewMLP
  optArg,     \* the optimizer handed to NewMLP: [Lr, Momentum, WeightDecay]
  seed,       \* the weight stream math/rand would deliver
  draws,      \* how many values have been taken from that stream
  net,        \* "none" before NewMLP, then "built" or "panic"
  Arch,       \* Net.Arch
  Layers,     \* Net.Layers: a sequence of sequences of unit ids
  nin,        \* Unit.nin, per unit id
  activ,      \* Unit.activ, "Relu" or "Identity", per unit id
  output,     \* Unit.output: key -> channel, per unit id
  outputB,    \* Unit.outputB: key -> channel, per unit id
  opt,        \* Unit.opt: the optimizer instance of each unit
  started,    \* Net.Start has launched the goroutines
  train,      \* argument of Net.Start
  updateFreq, \* argument of Net.Start
  runs,       \* the executions of the network that are observed
  W,          \* Unit.W.Params per run and unit: key -> Param
  buf,        \* SGD.buf (momentum buffer) per run and optimizer instance
  relu,       \* Relu.value per run and unit
  loc,        \* each unit goroutine's position and locals, per run
  cpc,        \* the caller's position inside Net.Forward / Net.Backward
  cidx,       \* the caller's loop index ii
  cdata,      \* the argument of the call in progress
  outv,       \* Net.Forward's output slice, per run
  ret,        \* how the last call ended, per run
  reported,   \* per run and unit: tokens delivered on stepDone
  nFwd,       \* Forward calls issued with a valid input
  nBwd,       \* Backward calls issued with a valid gradient
  prevRet,    \* how the call before the last one ended
  lastCall,   \* the last call issued: [op, len]
  alternating,\* the caller has so far alternated Forward and Backward
  ref,        \* a sequential layer-by-layer network fed the same calls
  loss,       \* a call of MarginLoss: [score, target, ret]
  sgd,        \* an SGD at work on one Param: [o, buf, p, n] and, before the last Step, [buf0, p0]
  av,         \* an Activation at work: [a, cached], its last call [op, arg, ret] and the
              \* argument of its last Forward, if any: [fwd, lastX]
  bnet,       \* the Net of the buffered units (unit.go): [Arch, started, train, updateFreq]
  Input,      \* per buffered unit: the senders of the signals queued in u.Input
  InputB,     \* per buffered unit: the senders of the signals queued in u.InputB
  Output,     \* per output unit: the values queued in u.Output
  OutputB,    \* per input unit: the values queued in u.OutputB
  uloc,       \* per buffered unit: where its goroutine stands, [pc, need, todo, step]
  caller      \* the caller of that Net: [pc, idx, op, n, ret]

chanVars   == <<bnet, Input, InputB, Output, OutputB, uloc, caller>>
staticVars == <<archArg, optArg, seed, draws, net, Arch, Layers, nin, activ, output, outputB, opt,
                loss, sgd, av, chanVars>>
startVars  == <<started, train, updateFreq>>
unitVars   == <<W, buf, relu, loc, reported>>
callerVars == <<cpc, cidx, cdata, outv, ret>>
ghostVars  == <<nFwd, nBwd, prevRet, lastCall, alternating, ref>>
vars == <<staticVars, startVars, runs, unitVars, callerVars, ghostVars>>

\* No Net of buffered units exists.
NoChans ==
  /\ bnet = [Arch |-> <<>>, started |-> FALSE, train |-> FALSE, updateFreq |-> 0]
  /\ Input = <<>> /\ InputB = <<>> /\ Output = <<>> /\ OutputB = <<>>
  /\ uloc = <<>>
  /\ caller = [pc |-> "idle", idx |-> 0, op |-> "Forward", n |-> 0, ret |-> "none"]

(***************************************************************************)
(* Bounds of the model.                                                    *)
(***************************************************************************)
MaxPass == 2     \* Forward calls the caller issues
MaxLayers == 4   \* longest architecture handed to NewMLP
MaxSize == 2     \* largest layer size handed to NewMLP
MaxScore == 6    \* largest score (in absolute value) handed to MarginLoss
MaxSteps == 2    \* most calls of SGD.Step on one Param
MaxVal == 2      \* largest number (in absolute value) handed to SGD.Step or an Activation

\* Architectures NewMLP is tried on: every sequence of at most MaxLayers
\* sizes in -1..MaxSize.
RECURSIVE SeqsUpTo(_, _)
SeqsUpTo(S, n) ==
  IF n = 0 THEN {<<>>}
  ELSE LET shorter == SeqsUpTo(S, n - 1)
       IN  shorter \cup {Append(s, x) : s \in {t \in shorter : Len(t) = n - 1}, x \in S}
ArchInputs == SeqsUpTo(-1 .. MaxSize, MaxLayers)

\* Architectures the running network is observed on.
Archs == {<<2, 1, 2>>, <<1, 2, 1>>, <<1, 1, 1, 1>>}

\* Weight streams: the values successive randUnif calls return.
Seeds == {<<1, -1, 2, 1>>, <<-1, 2, 1, -2>>}

\* Optimizers handed to NewMLP.
OptInputs == {[Lr |-> 1, Momentum |-> 0, WeightDecay |-> 0],
              [Lr |-> 1, Momentum |-> 1, WeightDecay |-> 1]}

\* The optimizer and weight stream of the networks that are run.
NetInputs == {<<[Lr |-> 1, Momentum |-> 0, WeightDecay |-> 0], <<1, -1, 2, 1>>>>,
              <<[Lr |-> 1, Momentum |-> 1, WeightDecay |-> 1], <<-1, 2, 1, -2>>>>}

\* The optimizers, parameters and gradients SGD.Step is tried on.
SGDInputs == [Lr : {1, 2}, Momentum : {0, 2}, WeightDecay : {0, 1}]

Vals == (0 - MaxVal) .. MaxVal

\* The id SGD.Step is called with.
stepID == "000"

\* Arguments of MarginLoss.
ScoreInputs == (0 - MaxScore) .. MaxScore

TargetInputs == {-2, -1, 0, 1, 2}

\* Arguments of Net.Start.
StartInputs == {<<TRUE, 1>>, <<TRUE, 2>>, <<TRUE, 0>>, <<FALSE, 1>>}

\* Input vectors and gradient vectors; a call is tried with their prefixes.
DataVals == {<<-1, 2, 1>>, <<2, -1, -2>>}
GradVals == {<<1, -1, 1>>}

(***************************************************************************)
(* Identifiers (neuron.go:90-95, net.go:193-199).                          *)
(***************************************************************************)
inputID  == "_INPUT"
outputID == "_OUTPUT"
biasID   == "_BIAS"

\* fmt's %0wd for n >= 0: at least w digits, zero padded.
Pad(n, w) ==
  LET s == ToString(n)
  IN  IF Len(s) >= w THEN s ELSE SubSeq("000000", 1, w - Len(s)) \o s

\* fmt.Sprintf("%03d_%06d", ii, jj)
UnitID(ii, jj) == Pad(ii, 3) \o "_" \o Pad(jj, 6)

(***************************************************************************)
(* Parameters and weights (neuron.go:34-82).                               *)
(***************************************************************************)
\* Weight.init: the Param stored under an id.
NewParam(data, requiresGrad) ==
  [Data |-> data, RequiresGrad |-> requiresGrad, value |-> 0, grad |-> 0]

\* A channel is named by the unit that made it and the field that holds it.
Chan(id, field) == [owner |-> id, field |-> field]

HiddenBias == 1   \* stands for 0.1
OutputBias == 0   \* 0.0
InputWeight == 1  \* 1.0

\* randUnif: the n-th draw (n = 0, 1, ...) of the weight stream.
randUnif(s, n) == s[(n % Len(s)) + 1]

(***************************************************************************)
(* NewMLP (net.go:168-223) and the unit constructors (neuron.go:97-154).   *)
(* A network under construction is a record of maps keyed by unit id.      *)
(***************************************************************************)
\* newUnit, then newInputUnit / newHiddenUnit / newOutputUnit.
newUnit(id, a, o) ==
  [ID |-> id, W |-> <<>>, nin |-> 0, activ |-> a, opt |-> o,
   output |-> <<>>, outputB |-> <<>>]

\* f with key k set to v (a Go map assignment).
Put(f, k, v) == [x \in DOMAIN f \cup {k} |-> IF x = k THEN v ELSE f[x]]

\* A faulty feedIn that makes the input weight trainable.
feedInTrainable(u) == [u EXCEPT !.W = Put(u.W, inputID, NewParam(InputWeight, TRUE)),
                                !.nin = u.nin + 1]

feedIn(u) == [u EXCEPT !.W = Put(u.W, inputID, NewParam(InputWeight, FALSE)),
                       !.nin = u.nin + 1]

feedOut(u) == [u EXCEPT !.output = Put(u.output, outputID, Chan(u.ID, "output"))]

newInputUnit(id, o) == feedIn(newUnit(id, "Identity", o))

newHiddenUnit(id, o) ==
  LET u == newUnit(id, "Relu", o)
  IN  [u EXCEPT !.W = Put(u.W, biasID, NewParam(HiddenBias, TRUE))]

newOutputUnit(id, o) ==
  LET u == newUnit(id, "Identity", o)
  IN  feedOut([u EXCEPT !.W = Put(u.W, biasID, NewParam(OutputBias, TRUE))])

RECURSIVE SumTo(_, _)
SumTo(arch, n) == IF n = 0 THEN 0 ELSE SumTo(arch, n - 1) + arch[n]

\* The nil Optimizer of a Unit that was given none.
NoOpt == 0

\* A faulty factory that hands back nil.
OptNewNil(n) == NoOpt

\* A faulty factory that hands back the one optimizer it was called on.
OptNewShared(n) == 1

\* SGD.New / NewSGD: the n-th call (n = 0, 1, ...) on the optimizer handed to
\* NewMLP returns a fresh instance, with an empty buffer of its own.
OptNew(n) == n + 1

\* A faulty check that looks at the number of layers only.
ArchPanicsLayers(arch) == Len(arch) < 3

\* The validity check of NewMLP: TRUE when it panics.
ArchPanics(arch) ==
  \/ Len(arch) < 3
  \/ \E i \in 1 .. Len(arch) : arch[i] < 1

\* The "Make layers" loop: Layers[ii+1][jj+1] is the id of unit jj of layer ii.
MakeLayers(arch) ==
  [ii \in 1 .. Len(arch) |-> [jj \in 1 .. arch[ii] |-> UnitID(ii - 1, jj - 1)]]

\* A faulty "Make layers" loop whose switch never reaches the output case.
MakeUnitNoOutput(arch, ii, jj) ==
  LET id == UnitID(ii, jj)
      o  == OptNew(SumTo(arch, ii) + jj)
  IN  IF ii = 0 THEN newInputUnit(id, o)
      ELSE newHiddenUnit(id, o)

\* The unit the "Make layers" loop creates at position jj of layer ii (0-based).
MakeUnit(arch, ii, jj) ==
  LET id == UnitID(ii, jj)
      o  == OptNew(SumTo(arch, ii) + jj)
  IN  IF ii = 0 THEN newInputUnit(id, o)
      ELSE IF ii = Len(arch) - 1 THEN newOutputUnit(id, o)
      ELSE newHiddenUnit(id, o)

\* Unit.connect: u -> u2, with the n-th draw of the weight stream.
\* Returns the pair of changed units.
connect(u, u2, s, n) ==
  <<[u EXCEPT !.output = Put(u.output, u2.ID, Chan(u2.ID, "input"))],
    [u2 EXCEPT !.W = Put(u2.W, u.ID, NewParam(randUnif(s, n), TRUE)),
               !.outputB = Put(u2.outputB, u.ID, Chan(u.ID, "inputB")),
               !.nin = u2.nin + 1]>>

RECURSIVE ConnectOrderOnePeer(_, _, _, _)
\* Faulty connection loops that wire each unit to the first unit of the
\* next layer only.
ConnectOrderOnePeer(layers, ii, j1, j2) ==
  IF ii > Len(layers) - 1 THEN <<>>
  ELSE IF j1 > Len(layers[ii]) THEN ConnectOrderOnePeer(layers, ii + 1, 1, 1)
  ELSE IF j2 > 1 THEN ConnectOrderOnePeer(layers, ii, j1 + 1, 1)
  ELSE <<<<layers[ii][j1], layers[ii + 1][j2]>>>> \o ConnectOrderOnePeer(layers, ii, j1, j2 + 1)

RECURSIVE ConnectOrderLastFirst(_, _, _, _)
\* Faulty connection loops that take the upstream units of a layer from the
\* last to the first.
ConnectOrderLastFirst(layers, ii, j1, j2) ==
  IF ii > Len(layers) - 1 THEN <<>>
  ELSE IF j1 > Len(layers[ii]) THEN ConnectOrderLastFirst(layers, ii + 1, 1, 1)
  ELSE IF j2 > Len(layers[ii + 1]) THEN ConnectOrderLastFirst(layers, ii, j1 + 1, 1)
  ELSE <<<<layers[ii][Len(layers[ii]) + 1 - j1], layers[ii + 1][j2]>>>>
         \o ConnectOrderLastFirst(layers, ii, j1, j2 + 1)

\* The pairs the "Connect all the layers" loops visit, in order.
RECURSIVE ConnectOrder(_, _, _, _)
ConnectOrder(layers, ii, j1, j2) ==
  IF ii > Len(layers) - 1 THEN <<>>
  ELSE IF j1 > Len(layers[ii]) THEN ConnectOrder(layers, ii + 1, 1, 1)
  ELSE IF j2 > Len(layers[ii + 1]) THEN ConnectOrder(layers, ii, j1 + 1, 1)
  ELSE <<<<layers[ii][j1], layers[ii + 1][j2]>>>> \o ConnectOrder(layers, ii, j1, j2 + 1)

RECURSIVE ConnectAll(_, _, _, _)
ConnectAll(us, pairs, s, n) ==
  IF n >= Len(pairs) THEN us
  ELSE LET p == pairs[n + 1]
           c == connect(us[p[1]], us[p[2]], s, n)
       IN  ConnectAll([x \in DOMAIN us |->
                          IF x = p[1] THEN c[1] ELSE IF x = p[2] THEN c[2] ELSE us[x]],
                      pairs, s, n + 1)

\* NewMLP for an architecture that passes the check: the units by id.
NewMLP(arch, s) ==
  LET layers == MakeLayers(arch)
      all == UNION {{MakeUnit(arch, ii - 1, jj - 1) : jj \in 1 .. arch[ii]} :
                      ii \in 1 .. Len(arch)}
      made == [id \in {u.ID : u \in all} |-> CHOOSE u \in all : u.ID = id]
      pairs == ConnectOrder(layers, 1, 1, 1)
  IN  [Layers |-> layers, units |-> ConnectAll(made, pairs, s, 0), draws |-> Len(pairs)]

(***************************************************************************)
(* Weight.forward / Weight.backward (neuron.go:46-66), the activations     *)
(* (activations.go) and SGD (optim.go).  Each returns the value the code   *)
(* returns (ret) together with the state it leaves behind.                 *)
(***************************************************************************)
\* A faulty Weight.forward that makes a parameter for an id it does not know.
WeightForwardInsert(P, id, value) ==
  IF id \notin DOMAIN P THEN [ret |-> 0, P |-> Put(P, id, NewParam(0, FALSE))]
  ELSE [ret |-> P[id].Data * value,
        P |-> IF P[id].RequiresGrad THEN [P EXCEPT ![id].value = value] ELSE P]

WeightForward(P, id, value) ==
  IF id \notin DOMAIN P THEN [ret |-> 0, P |-> P]
  ELSE [ret |-> P[id].Data * value,
        P |-> IF P[id].RequiresGrad THEN [P EXCEPT ![id].value = value] ELSE P]

\* A faulty Weight.backward that stores the gradient instead of adding it.
WeightBackwardLast(P, id, grad) ==
  IF id \notin DOMAIN P THEN [ret |-> 0, P |-> P]
  ELSE [ret |-> P[id].Data * grad,
        P |-> IF P[id].RequiresGrad
                THEN [P EXCEPT ![id].grad = grad * P[id].value]
                ELSE P]

\* A faulty Weight.backward that moves the weight at once by the gradient.
WeightBackwardOnline(P, id, grad) ==
  IF id \notin DOMAIN P THEN [ret |-> 0, P |-> P]
  ELSE [ret |-> P[id].Data * grad,
        P |-> IF P[id].RequiresGrad
                THEN [P EXCEPT ![id].grad = P[id].grad + grad * P[id].value,
                               ![id].Data = P[id].Data - grad * P[id].value]
                ELSE P]

WeightBackward(P, id, grad) ==
  IF id \notin DOMAIN P THEN [ret |-> 0, P |-> P]
  ELSE [ret |-> P[id].Data * grad,
        P |-> IF P[id].RequiresGrad
                THEN [P EXCEPT ![id].grad = P[id].grad + grad * P[id].value]
                ELSE P]

Max(a, b) == IF a >= b THEN a ELSE b

\* A faulty Relu.Forward that fires its input as it is.
ActivForwardNoRelu(a, cached, value) ==
  IF a = "Relu" THEN [ret |-> value, value |-> value]
  ELSE [ret |-> value, value |-> cached]

\* Relu.Forward / Identity.Forward: the fired value and Relu's cached input.
ActivForward(a, cached, value) ==
  IF a = "Relu" THEN [ret |-> Max(value, 0), value |-> value]
  ELSE [ret |-> value, value |-> cached]

\* A faulty Relu.Backward that lets the gradient through at 0.
ActivBackwardStrict(a, cached, grad) ==
  IF a = "Relu" /\ cached < 0 THEN 0 ELSE grad

\* Relu.Backward / Identity.Backward
ActivBackward(a, cached, grad) ==
  IF a = "Relu" /\ cached <= 0 THEN 0 ELSE grad

\* SGD.Step on one parameter: the parameter and the buffer afterwards.
\* A faulty SGD.Step that forgets the momentum buffer of earlier Steps.
SGDStepFreshBuf(o, b, id, p) ==
  IF ~p.RequiresGrad THEN [p |-> p, buf |-> b]
  ELSE LET g == IF o.WeightDecay > 0 THEN p.grad + o.WeightDecay * p.Data ELSE p.grad
       IN  [p |-> [p EXCEPT !.Data = p.Data - o.Lr * g, !.grad = 0],
            buf |-> IF o.Momentum > 0 THEN Put(b, id, g) ELSE b]

\* A faulty SGD.Step that leaves the gradient in place.
SGDStepKeepGrad(o, b, id, p) ==
  IF ~p.RequiresGrad THEN [p |-> p, buf |-> b]
  ELSE LET g == IF o.WeightDecay > 0 THEN p.grad + o.WeightDecay * p.Data ELSE p.grad
           v == IF o.Momentum > 0
                  THEN IF id \in DOMAIN b THEN o.Momentum * b[id] + g ELSE g
                  ELSE g
       IN  [p |-> [p EXCEPT !.Data = p.Data - o.Lr * v],
            buf |-> IF o.Momentum > 0 THEN Put(b, id, v) ELSE b]

\* A faulty Step that also updates a parameter that takes no gradient.
SGDStepAlways(o, b, id, p) ==
  LET g == IF o.WeightDecay > 0 THEN p.grad + o.WeightDecay * p.Data ELSE p.grad
      v == IF o.Momentum > 0
             THEN IF id \in DOMAIN b THEN o.Momentum * b[id] + g ELSE g
             ELSE g
  IN  [p |-> [p EXCEPT !.Data = p.Data - o.Lr * v, !.grad = 0],
       buf |-> IF o.Momentum > 0 THEN Put(b, id, v) ELSE b]

SGDStep(o, b, id, p) ==
  IF ~p.RequiresGrad THEN [p |-> p, buf |-> b]
  ELSE LET g == IF o.WeightDecay > 0 THEN p.grad + o.WeightDecay * p.Data ELSE p.grad
           v == IF o.Momentum > 0
                  THEN IF id \in DOMAIN b THEN o.Momentum * b[id] + g ELSE g
                  ELSE g
       IN  [p |-> [p EXCEPT !.Data = p.Data - o.Lr * v, !.grad = 0],
            buf |-> IF o.Momentum > 0 THEN Put(b, id, v) ELSE b]

\* Unit.step: SGD.Step on every parameter of the unit.  The parameters are
\* updated independently of each other, so the map order does not show.
UnitStep(o, b, P) ==
  [P |-> [k \in DOMAIN P |-> SGDStep(o, b, k, P[k]).p],
   buf |-> IF o.Momentum > 0
             THEN [k \in DOMAIN b \cup {x \in DOMAIN P : P[x].RequiresGrad} |->
                     IF k \in DOMAIN P THEN SGDStep(o, b, k, P[k]).buf[k] ELSE b[k]]
             ELSE b]

(***************************************************************************)
(* The unit goroutine (Unit.start, Unit.forward, Unit.backward, Unit.step; *)
(* neuron.go:169-233).  loc[r][id].pc is where it stands:                  *)
(*   "off"       not launched                                              *)
(*   "forward"   at  s = <-u.input           (ii signals taken so far)     *)
(*   "fire"      at  u.output[cur] <- s      (todo: keys not yet sent)     *)
(*   "backward"  at  s = <-u.inputB          (ii gradients taken so far)   *)
(*   "backprop"  in  range u.W.Params at key cur (todo: keys not visited)  *)
(*   "step"      before u.step()                                           *)
(*   "stepDone"  at  u.stepDone <- 1                                       *)
(*   "panic"     in  panic("... optimizer is uninitialized!") of Unit.step *)
(* A range over a Go map visits the keys in an order of the runtime's      *)
(* choosing: cur is the key the loop stands at, any key of todo.           *)
(***************************************************************************)
Units == DOMAIN nin

NoKey == ""

NoLoc == [pc |-> "off", ii |-> 0, act |-> 0, grad |-> 0, todo |-> {}, cur |-> NoKey,
          step |-> 0]

\* The keys a range loop may visit next.
NextKeys(todo) == IF todo = {} THEN {NoKey} ELSE todo

\* A faulty accumulator that keeps the last term only.
AccumulateLast(acc, x) == x

\* How a float accumulator takes a new term (act += ..., grad += ...).
Accumulate(acc, x) == acc + x

\* The top of Unit.forward: act := u.W.forward(biasID, 1.0), then the receive loop.
\* A unit's state is the record [loc, W, relu].
EnterForward(step, P, cached) ==
  LET f == WeightForward(P, biasID, 1)
  IN  [loc |-> [pc |-> "forward", ii |-> 0, act |-> f.ret, grad |-> 0,
                todo |-> {}, cur |-> NoKey, step |-> step],
       W |-> f.P, relu |-> cached]

\* Unit.start from its first line: step := 1, then u.forward().
StartUnit(P, cached) == EnterForward(1, P, cached)

\* A faulty receive loop that stops one arrival early when there are several.
RecvForwardShort(u, n, a, outs, sig, nxt) ==
  LET f   == WeightForward(u.W, sig.id, sig.value)
      act == Accumulate(u.loc.act, f.ret)
      ii  == u.loc.ii + 1
      fa  == ActivForward(a, u.relu, act)
  IN  IF ii < n - 1
        THEN [loc |-> [u.loc EXCEPT !.ii = ii, !.act = act], W |-> f.P, relu |-> u.relu]
        ELSE [loc |-> [u.loc EXCEPT !.pc = "fire", !.ii = ii, !.act = fa.ret,
                                    !.todo = outs, !.cur = nxt],
              W |-> f.P, relu |-> fa.value]

\* One turn of the receive loop of Unit.forward on signal [id, value]; after
\* the nin-th the activation is applied and the send loop starts at key nxt.
RecvForward(u, n, a, outs, sig, nxt) ==
  LET f   == WeightForward(u.W, sig.id, sig.value)
      act == Accumulate(u.loc.act, f.ret)
      ii  == u.loc.ii + 1
      fa  == ActivForward(a, u.relu, act)
  IN  IF ii < n
        THEN [loc |-> [u.loc EXCEPT !.ii = ii, !.act = act], W |-> f.P, relu |-> u.relu]
        ELSE [loc |-> [u.loc EXCEPT !.pc = "fire", !.ii = ii, !.act = fa.ret,
                                    !.todo = outs, !.cur = nxt],
              W |-> f.P, relu |-> fa.value]

\* The position after the last stage of an iteration: step++, then the report.
ToStepDone(l) ==
  [l EXCEPT !.pc = "stepDone", !.todo = {}, !.cur = NoKey, !.step = l.step + 1]

\* A faulty Unit.start that goes on to Unit.backward whatever train is.
AfterForwardAlways(l, tr) ==
  [l EXCEPT !.pc = "backward", !.ii = 0, !.grad = 0, !.todo = {}, !.cur = NoKey]

\* A faulty Unit.start that ends the iteration after u.forward() whatever
\* train is.
AfterForwardNever(l, tr) == ToStepDone(l)

\* Unit.start after u.forward() returned.
AfterForward(l, tr) ==
  IF tr THEN [l EXCEPT !.pc = "backward", !.ii = 0, !.grad = 0, !.todo = {}, !.cur = NoKey]
  ELSE ToStepDone(l)

\* A faulty send loop that leaves Unit.forward after its first send.
SentForwardEarly(l, tr, nxt) == AfterForward(l, tr)

\* The send u.output[cur] <- s has been taken; the loop moves to key nxt.
SentForward(l, tr, nxt) ==
  LET todo == l.todo \ {l.cur}
  IN  IF todo = {} THEN AfterForward(l, tr) ELSE [l EXCEPT !.todo = todo, !.cur = nxt]

\* A faulty receive loop that skips the parameter loop when the gradient
\* left by the activation is zero.
RecvBackwardSkipZero(u, a, nout, sig, nxt) ==
  LET grad == Accumulate(u.loc.grad, sig.value)
      ii   == u.loc.ii + 1
      g    == ActivBackward(a, u.relu, grad)
  IN  IF ii < nout
        THEN [u.loc EXCEPT !.ii = ii, !.grad = grad]
        ELSE IF g = 0 THEN ToStepDone([u.loc EXCEPT !.ii = ii, !.grad = g])
        ELSE [u.loc EXCEPT !.pc = "backprop", !.ii = ii, !.grad = g,
                            !.todo = DOMAIN u.W, !.cur = nxt]

\* A faulty receive loop that stops one gradient early when there are several.
RecvBackwardShort(u, a, nout, sig, nxt) ==
  LET grad == Accumulate(u.loc.grad, sig.value)
      ii   == u.loc.ii + 1
  IN  IF ii < nout - 1
        THEN [u.loc EXCEPT !.ii = ii, !.grad = grad]
        ELSE [u.loc EXCEPT !.pc = "backprop", !.ii = ii,
                            !.grad = ActivBackward(a, u.relu, grad),
                            !.todo = DOMAIN u.W, !.cur = nxt]

\* One turn of the receive loop of Unit.backward; after len(u.output) turns
\* the activation's derivative is applied and the loop over the parameters
\* starts at key nxt.
RecvBackward(u, a, nout, sig, nxt) ==
  LET grad == Accumulate(u.loc.grad, sig.value)
      ii   == u.loc.ii + 1
  IN  IF ii < nout
        THEN [u.loc EXCEPT !.ii = ii, !.grad = grad]
        ELSE [u.loc EXCEPT !.pc = "backprop", !.ii = ii,
                            !.grad = ActivBackward(a, u.relu, grad),
                            !.todo = DOMAIN u.W, !.cur = nxt]

\* A faulty test that counts the iterations from 0.
StepDueFromZero(step, uf) == uf > 0 /\ (step - 1) % uf = 0

\* Unit.start after u.backward() returned: is a step due?
StepDue(step, uf) == uf > 0 /\ step % uf = 0

\* A faulty Unit.start that reports only the iterations that stepped.
AfterBackwardNoReport(l, uf) ==
  IF StepDue(l.step, uf) THEN [l EXCEPT !.pc = "step", !.todo = {}, !.cur = NoKey]
  ELSE [l EXCEPT !.pc = "forward", !.ii = 0, !.todo = {}, !.cur = NoKey, !.step = l.step + 1]

AfterBackward(l, uf) ==
  IF StepDue(l.step, uf) THEN [l EXCEPT !.pc = "step", !.todo = {}, !.cur = NoKey]
  ELSE ToStepDone(l)

\* A faulty turn of the parameter loop that sends the gradient upstream
\* without the weight.
VisitParamRaw(u, uf, nxt) ==
  LET b    == WeightBackward(u.W, u.loc.cur, u.loc.grad)
      todo == u.loc.todo \ {u.loc.cur}
  IN  [ret |-> u.loc.grad, W |-> b.P,
       loc |-> IF todo = {} THEN AfterBackward(u.loc, uf)
               ELSE [u.loc EXCEPT !.todo = todo, !.cur = nxt]]

\* One turn of the loop over u.W.Params in Unit.backward at key cur: the
\* parameter's gradient is accumulated; ret is the gradient sent upstream
\* when cur names an upstream peer.  The loop moves to key nxt.
VisitParam(u, uf, nxt) ==
  LET b    == WeightBackward(u.W, u.loc.cur, u.loc.grad)
      todo == u.loc.todo \ {u.loc.cur}
  IN  [ret |-> b.ret, W |-> b.P,
       loc |-> IF todo = {} THEN AfterBackward(u.loc, uf)
               ELSE [u.loc EXCEPT !.todo = todo, !.cur = nxt]]

\* The state of unit id in run r.
UnitAt(r, id) == [loc |-> loc[r][id], W |-> W[r][id], relu |-> relu[r][id]]

(***************************************************************************)
(* Net.Forward, Net.Backward, Net.sync (net.go:226-284).                   *)
(***************************************************************************)
\* Faulty length checks that refuse only an argument that is too long.
ForwardPanicsLong(data, arch) == Len(data) > arch[1]

BackwardPanicsLong(grad, arch) == Len(grad) > arch[Len(arch)]

ForwardPanics(data, arch) == Len(data) # arch[1]

outDim(arch) == arch[Len(arch)]

BackwardPanics(grad, arch) == Len(grad) # outDim(arch)

\* Faulty barriers: one that drains a token per layer, one that drains a
\* token too few, one that waits for a token too many.
totalUnitsPerLayer(arch) == Len(arch)

totalUnitsShort(arch) == SumTo(arch, Len(arch)) - 1

totalUnitsLong(arch) == SumTo(arch, Len(arch)) + 1

\* totalUnits of Net.sync
totalUnits(arch) == SumTo(arch, Len(arch))

(***************************************************************************)
(* The sequential reference: the network computed layer by layer, one unit *)
(* after the other (the order TestForwardBackwardStep drives the units     *)
(* in), on plain maps: weights Wt, accumulated gradients G, momentum       *)
(* buffers B, fired values a, pre-activations pre.                         *)
(***************************************************************************)
RECURSIVE Dot(_, _, _, _)
\* Sum over j = 1..n of f[keys[j]] * g[keys[j]]
Dot(f, g, keys, n) ==
  IF n = 0 THEN 0 ELSE Dot(f, g, keys, n - 1) + f[keys[n]] * g[keys[n]]

Ids(layer) == {layer[j] : j \in 1 .. Len(layer)}

\* f overridden by g where g is defined.
Merge(f, g) == [x \in DOMAIN f \cup DOMAIN g |-> IF x \in DOMAIN g THEN g[x] ELSE f[x]]

RefInit(us) ==
  LET tr(id) == {k \in DOMAIN us[id].W : us[id].W[k].RequiresGrad}
  IN  [Wt   |-> [id \in DOMAIN us |-> [k \in tr(id) |-> us[id].W[k].Data]],
       G    |-> [id \in DOMAIN us |-> [k \in tr(id) |-> 0]],
       B    |-> [id \in DOMAIN us |-> <<>>],
       a    |-> [id \in DOMAIN us |-> 0],
       pre  |-> [id \in DOMAIN us |-> 0],
       hist |-> <<>>,
       step |-> 1]

RECURSIVE RefForwardFrom(_, _, _)
\* Layers ii .. last, given the fired values of the layers before.
RefForwardFrom(rf, layers, ii) ==
  IF ii > Len(layers) THEN rf
  ELSE LET up  == layers[ii - 1]
           pre == [id \in Ids(layers[ii]) |->
                     rf.Wt[id][biasID] + Dot(rf.Wt[id], rf.a, up, Len(up))]
           a   == [id \in Ids(layers[ii]) |->
                     IF ii < Len(layers) THEN Max(pre[id], 0) ELSE pre[id]]
       IN  RefForwardFrom([rf EXCEPT !.pre = Merge(rf.pre, pre), !.a = Merge(rf.a, a)],
                          layers, ii + 1)

RefForward(rf, layers, data) ==
  LET at(id) == CHOOSE j \in 1 .. Len(layers[1]) : layers[1][j] = id
      a0 == [id \in Ids(layers[1]) |->
               IF at(id) <= Len(data) THEN data[at(id)] ELSE rf.a[id]]
  IN  RefForwardFrom([rf EXCEPT !.a = Merge(rf.a, a0)], layers, 2)

\* The forward outputs of the reference.
RefOutput(rf, layers) ==
  [j \in 1 .. Len(layers[Len(layers)]) |-> rf.a[layers[Len(layers)][j]]]

RECURSIVE RefBackwardFrom(_, _, _, _)
\* Layers ii down to the first hidden layer; d is the gradient arriving at
\* each unit of layer ii.
RefBackwardFrom(rf, layers, ii, d) ==
  IF ii < 2 THEN rf
  ELSE LET here  == Ids(layers[ii])
           up    == Ids(layers[ii - 1])
           delta == [id \in here |->
                       IF ii < Len(layers) /\ rf.pre[id] <= 0 THEN 0 ELSE d[id]]
           G     == [id \in here |->
                       [k \in DOMAIN rf.G[id] |->
                          rf.G[id][k] + (IF k = biasID THEN delta[id]
                                         ELSE delta[id] * rf.a[k])]]
           wcol(u) == [id \in here |-> rf.Wt[id][u]]
           dUp   == [u \in up |-> Dot(wcol(u), delta, layers[ii], Len(layers[ii]))]
       IN  RefBackwardFrom([rf EXCEPT !.G = Merge(rf.G, G)], layers, ii - 1, dUp)

RefBackward(rf, layers, grad) ==
  LET last == layers[Len(layers)]
      at(id) == CHOOSE j \in 1 .. Len(last) : last[j] = id
      d    == [id \in Ids(last) |-> IF at(id) <= Len(grad) THEN grad[at(id)] ELSE 0]
  IN  RefBackwardFrom(rf, layers, Len(layers), d)

\* SGD with momentum and weight decay on every parameter, gradients reset.
RefStep(rf, o) ==
  LET g(id, k) == rf.G[id][k] + (IF o.WeightDecay > 0 THEN o.WeightDecay * rf.Wt[id][k] ELSE 0)
      v(id, k) == IF o.Momentum > 0 /\ k \in DOMAIN rf.B[id]
                    THEN o.Momentum * rf.B[id][k] + g(id, k) ELSE g(id, k)
  IN  [rf EXCEPT
         !.Wt = [id \in DOMAIN rf.Wt |-> [k \in DOMAIN rf.Wt[id] |->
                    rf.Wt[id][k] - o.Lr * v(id, k)]],
         !.B  = [id \in DOMAIN rf.B |->
                    IF o.Momentum > 0 THEN [k \in DOMAIN rf.Wt[id] |-> v(id, k)]
                    ELSE rf.B[id]],
         !.G  = [id \in DOMAIN rf.G |-> [k \in DOMAIN rf.G[id] |-> 0]]]

\* One training iteration's backward half: backward, then the step when due.
\* hist keeps what each pass added to every gradient.
RefTrain(rf, layers, grad, o, uf) ==
  LET b == RefBackward(rf, layers, grad)
      t == IF uf > 0 /\ rf.step % uf = 0 THEN RefStep(b, o) ELSE b
      c == [id \in DOMAIN rf.G |-> [k \in DOMAIN rf.G[id] |-> b.G[id][k] - rf.G[id][k]]]
  IN  [t EXCEPT !.step = rf.step + 1, !.hist = Append(rf.hist, c)]

(***************************************************************************)
(* The caller's position inside Net.Forward and Net.Backward.  A loop of   *)
(* zero turns is passed without a stop.                                    *)
(***************************************************************************)
At(pc, idx) == [pc |-> pc, idx |-> idx]

\* After the feed-in loop of Net.Forward: the feed-out loop, or the return.
AfterFeed(arch) == IF outDim(arch) > 0 THEN At("collect", 0) ELSE At("idle", 0)

EnterForwardCall(data, arch) == IF Len(data) > 0 THEN At("feed", 0) ELSE AfterFeed(arch)

NextFeed(idx, data, arch) ==
  IF idx + 1 < Len(data) THEN At("feed", idx + 1) ELSE AfterFeed(arch)

\* A faulty Forward that returns on the first output.
NextCollectOnce(idx, arch) == At("idle", 0)

NextCollect(idx, arch) ==
  IF idx + 1 < outDim(arch) THEN At("collect", idx + 1) ELSE At("idle", 0)

\* Net.Backward after its feed-in loop calls n.sync().
EnterSync(arch) == IF totalUnits(arch) > 0 THEN At("sync", 0) ELSE At("idle", 0)

\* A faulty Backward that goes to the barrier without feeding the gradient.
EnterBackwardCallSkip(grad, arch) == EnterSync(arch)

EnterBackwardCall(grad, arch) == IF Len(grad) > 0 THEN At("feedB", 0) ELSE EnterSync(arch)

NextFeedB(idx, grad, arch) ==
  IF idx + 1 < Len(grad) THEN At("feedB", idx + 1) ELSE EnterSync(arch)

\* A faulty barrier that returns on the first token.
NextSyncOnce(idx, arch) == At("idle", 0)

NextSync(idx, arch) ==
  IF idx + 1 < totalUnits(arch) THEN At("sync", idx + 1) ELSE At("idle", 0)

\* The arguments a call is tried with: the prefixes of length n - 1, n and
\* n + 1 of the vectors of vals.
CallArgs(vals, n) ==
  {SubSeq(v, 1, k) : v \in vals, k \in {n - 1, n, n + 1}}

(***************************************************************************)
(* MarginLoss (unnamed/part_003:32-46): what the call yields, a panic or   *)
(* the pair (loss, grad).                                                  *)
(***************************************************************************)
NoRet == [panic |-> FALSE, loss |-> 0, grad |-> 0, done |-> FALSE]

NoLoss == [score |-> 0, target |-> 0, ret |-> NoRet]

\* A faulty MarginLoss whose gradient vanishes only beyond the margin.
MarginLossStrict(score, target) ==
  IF ~(target = 1 \/ target = -1)
    THEN [panic |-> TRUE, loss |-> 0, grad |-> 0, done |-> TRUE]
    ELSE [panic |-> FALSE, loss |-> Max(1 - score * target, 0),
          grad |-> IF score * target > 1 THEN 0 ELSE 0 - target, done |-> TRUE]

MarginLoss(score, target) ==
  IF ~(target = 1 \/ target = -1)
    THEN [panic |-> TRUE, loss |-> 0, grad |-> 0, done |-> TRUE]
    ELSE [panic |-> FALSE, loss |-> Max(1 - score * target, 0),
          grad |-> IF score * target >= 1 THEN 0 ELSE 0 - target, done |-> TRUE]

\* No SGD and no Activation at work.
NoSgd == [o |-> [Lr |-> 0, Momentum |-> 0, WeightDecay |-> 0], buf |-> <<>>,
          p |-> NewParam(0, FALSE), n |-> 0, buf0 |-> <<>>, p0 |-> NewParam(0, FALSE)]

NoAv == [a |-> "none", cached |-> 0, op |-> "none", arg |-> 0, ret |-> 0,
         fwd |-> FALSE, lastX |-> 0]

(***************************************************************************)
(* States.                                                                 *)
(***************************************************************************)
NoCall == [op |-> "none", len |-> 0]

\* What NewMLP(arch, opt) leaves behind, per field.
Built(arch, s) ==
  LET c == NewMLP(arch, s)
      ids == DOMAIN c.units
  IN  [Arch    |-> arch,
       Layers  |-> c.Layers,
       nin     |-> [id \in ids |-> c.units[id].nin],
       activ   |-> [id \in ids |-> c.units[id].activ],
       output  |-> [id \in ids |-> c.units[id].output],
       outputB |-> [id \in ids |-> c.units[id].outputB],
       opt     |-> [id \in ids |-> c.units[id].opt],
       W       |-> [id \in ids |-> c.units[id].W],
       buf     |-> [o \in {c.units[id].opt : id \in ids} |-> <<>>],
       draws   |-> c.draws,
       ref     |-> RefInit(c.units)]

\* The caller, the goroutines and the history before anything ran.
Quiet(rs) ==
  /\ started = FALSE /\ train = FALSE /\ updateFreq = 0
  /\ runs = rs
  /\ cpc = [r \in rs |-> "idle"]
  /\ cidx = [r \in rs |-> 0]
  /\ cdata = <<>>
  /\ outv = [r \in rs |-> <<>>]
  /\ ret = [r \in rs |-> "none"]
  /\ nFwd = 0 /\ nBwd = 0
  /\ prevRet = "none"
  /\ lastCall = NoCall
  /\ alternating = TRUE

\* The state NewMLP(arch, opt) returns in, observed in the runs rs.
InitBuilt(archs, rs) ==
  /\ archArg \in archs
  /\ loss = NoLoss /\ sgd = NoSgd /\ av = NoAv /\ NoChans
  /\ \E c \in NetInputs : optArg = c[1] /\ seed = c[2]
  /\ net = "built"
  /\ LET b == Built(archArg, seed)
     IN  /\ Arch = b.Arch /\ Layers = b.Layers /\ nin = b.nin /\ activ = b.activ
         /\ output = b.output /\ outputB = b.outputB /\ opt = b.opt
         /\ W = [r \in rs |-> b.W]
         /\ buf = [r \in rs |-> b.buf]
         /\ relu = [r \in rs |-> [id \in DOMAIN b.nin |-> 0]]
         /\ loc = [r \in rs |-> [id \in DOMAIN b.nin |-> NoLoc]]
         /\ reported = [r \in rs |-> [id \in DOMAIN b.nin |-> 0]]
         /\ ref = b.ref /\ draws = b.draws
  /\ Quiet(rs)

Init == InitBuilt(Archs, {1})

\* No network exists.
Unbuilt ==
  /\ net = "none" /\ draws = 0
  /\ Arch = <<>> /\ Layers = <<>> /\ nin = <<>> /\ activ = <<>>
  /\ output = <<>> /\ outputB = <<>> /\ opt = <<>>
  /\ W = [r \in {1} |-> <<>>] /\ buf = [r \in {1} |-> <<>>]
  /\ relu = [r \in {1} |-> <<>>] /\ loc = [r \in {1} |-> <<>>]
  /\ reported = [r \in {1} |-> <<>>]
  /\ ref = <<>>
  /\ Quiet({1})

\* Before NewMLP is called.
InitNew ==
  /\ archArg \in ArchInputs /\ optArg \in OptInputs /\ seed \in Seeds
  /\ loss = NoLoss /\ sgd = NoSgd /\ av = NoAv /\ NoChans
  /\ Unbuilt

\* Before MarginLoss is called.
InitLoss ==
  /\ archArg = <<>> /\ optArg \in OptInputs /\ seed \in Seeds
  /\ \E sc \in ScoreInputs, tg \in TargetInputs :
       loss = [score |-> sc, target |-> tg, ret |-> NoRet]
  /\ sgd = NoSgd /\ av = NoAv /\ NoChans
  /\ Unbuilt

(***************************************************************************)
(* NewMLP (net.go:168-223).                                                *)
(***************************************************************************)
NewMLPPanic ==
  /\ net = "none"
  /\ ArchPanics(archArg)
  /\ net' = "panic"
  /\ UNCHANGED <<archArg, optArg, seed, draws, Arch, Layers, nin, activ, output, outputB, opt,
               chanVars>>
  /\ UNCHANGED <<loss, sgd, av>>
  /\ UNCHANGED <<startVars, runs, unitVars, callerVars, ghostVars>>

NewMLPOk ==
  /\ net = "none"
  /\ ~ArchPanics(archArg)
  /\ net' = "built"
  /\ LET b == Built(archArg, seed)
     IN  /\ Arch' = b.Arch /\ Layers' = b.Layers /\ nin' = b.nin /\ activ' = b.activ
         /\ output' = b.output /\ outputB' = b.outputB /\ opt' = b.opt
         /\ W' = [r \in runs |-> b.W]
         /\ buf' = [r \in runs |-> b.buf]
         /\ relu' = [r \in runs |-> [id \in DOMAIN b.nin |-> 0]]
         /\ loc' = [r \in runs |-> [id \in DOMAIN b.nin |-> NoLoc]]
         /\ reported' = [r \in runs |-> [id \in DOMAIN b.nin |-> 0]]
         /\ ref' = b.ref /\ draws' = b.draws
  /\ UNCHANGED <<archArg, optArg, seed, loss, sgd, av, chanVars, startVars, runs, callerVars>>
  /\ UNCHANGED <<nFwd, nBwd, prevRet, lastCall, alternating>>

(***************************************************************************)
(* Net.Start (net.go:286-296): one goroutine per unit, each in Unit.start. *)
(***************************************************************************)
Start ==
  /\ net = "built" /\ ~started
  /\ \E a \in StartInputs :
       /\ started' = TRUE /\ train' = a[1] /\ updateFreq' = a[2]
  /\ loc'  = [r \in runs |-> [id \in Units |-> StartUnit(W[r][id], relu[r][id]).loc]]
  /\ W'    = [r \in runs |-> [id \in Units |-> StartUnit(W[r][id], relu[r][id]).W]]
  /\ UNCHANGED <<staticVars, runs, buf, relu, reported, callerVars, ghostVars>>

(***************************************************************************)
(* Steps.  A step that moves two goroutines is a send met by its receive.  *)
(***************************************************************************)
\* In run r, unit id takes state x ([loc, W, relu]); the rest stays.
SetUnit(r, id, x) ==
  /\ loc'  = [loc  EXCEPT ![r][id] = x.loc]
  /\ W'    = [W    EXCEPT ![r][id] = x.W]
  /\ relu' = [relu EXCEPT ![r][id] = x.relu]

\* In run r, units id and id2 take states x and x2.
SetUnits(r, id, x, id2, x2) ==
  /\ loc'  = [loc  EXCEPT ![r][id] = x.loc,  ![r][id2] = x2.loc]
  /\ W'    = [W    EXCEPT ![r][id] = x.W,    ![r][id2] = x2.W]
  /\ relu' = [relu EXCEPT ![r][id] = x.relu, ![r][id2] = x2.relu]

\* The caller of run r moves to position p inside the call op.
MoveCaller(r, p, op) ==
  /\ cpc'  = [cpc  EXCEPT ![r] = p.pc]
  /\ cidx' = [cidx EXCEPT ![r] = p.idx]
  /\ ret'  = [ret  EXCEPT ![r] = IF p.pc = "idle" THEN op ELSE @]

Idle == started /\ \A r \in runs : cpc[r] = "idle"

\* Net.Forward is called (in every run, with the same input).
ForwardCall ==
  /\ Idle
  /\ \E data \in CallArgs(DataVals, Arch[1]) :
       /\ lastCall' = [op |-> "Forward", len |-> Len(data)]
       /\ prevRet' = ret[CHOOSE r \in runs : TRUE]
       /\ IF ForwardPanics(data, Arch)
            THEN /\ ret' = [r \in runs |-> "panic"]
                 /\ UNCHANGED <<cpc, cidx, cdata, outv, nFwd, alternating, ref>>
            ELSE /\ nFwd < MaxPass
                 /\ LET p == EnterForwardCall(data, Arch)
                    IN  /\ cpc' = [r \in runs |-> p.pc]
                        /\ cidx' = [r \in runs |-> p.idx]
                        /\ ret' = [r \in runs |-> IF p.pc = "idle" THEN "Forward" ELSE "pending"]
                 /\ cdata' = data
                 /\ outv' = [r \in runs |-> [j \in 1 .. outDim(Arch) |-> 0]]
                 /\ nFwd' = nFwd + 1
                 /\ alternating' = (alternating /\ nFwd = nBwd)
                 /\ ref' = RefForward(ref, Layers, data)
  /\ UNCHANGED <<staticVars, startVars, runs, unitVars, nBwd>>

\* Net.Backward is called (in every run, with the same gradient).
BackwardCall ==
  /\ Idle
  /\ \E grad \in CallArgs(GradVals, outDim(Arch)) :
       /\ lastCall' = [op |-> "Backward", len |-> Len(grad)]
       /\ prevRet' = ret[CHOOSE r \in runs : TRUE]
       /\ IF BackwardPanics(grad, Arch)
            THEN /\ ret' = [r \in runs |-> "panic"]
                 /\ UNCHANGED <<cpc, cidx, cdata, nBwd, alternating, ref>>
            ELSE /\ nBwd < MaxPass
                 /\ LET p == EnterBackwardCall(grad, Arch)
                    IN  /\ cpc' = [r \in runs |-> p.pc]
                        /\ cidx' = [r \in runs |-> p.idx]
                        /\ ret' = [r \in runs |-> IF p.pc = "idle" THEN "Backward" ELSE "pending"]
                 /\ cdata' = grad
                 /\ nBwd' = nBwd + 1
                 /\ alternating' = (alternating /\ nFwd = nBwd + 1)
                 /\ ref' = IF train THEN RefTrain(ref, Layers, grad, optArg, updateFreq) ELSE ref
  /\ UNCHANGED <<staticVars, startVars, runs, unitVars, outv, nFwd>>

\* n.Layers[0][ii].input <- signal{id: inputID, value: v}
FeedIn(r) ==
  /\ cpc[r] = "feed"
  /\ LET id == Layers[1][cidx[r] + 1]
     IN  /\ loc[r][id].pc = "forward"
         /\ \E nxt \in NextKeys(DOMAIN output[id]) :
              SetUnit(r, id, RecvForward(UnitAt(r, id), nin[id], activ[id], DOMAIN output[id],
                                         [id |-> inputID, value |-> cdata[cidx[r] + 1]], nxt))
  /\ MoveCaller(r, NextFeed(cidx[r], cdata, Arch), "Forward")
  /\ UNCHANGED <<staticVars, startVars, runs, buf, reported, cdata, outv, ghostVars>>

\* u.output[k] <- s met by s = <-u2.input of a downstream peer.
Fire(r, id) ==
  LET l == loc[r][id]
  IN  /\ l.pc = "fire"
      /\ output[id][l.cur].field = "input"
      /\ LET id2 == output[id][l.cur].owner
         IN  /\ loc[r][id2].pc = "forward"
             /\ \E nxt \in NextKeys(l.todo \ {l.cur}), nxt2 \in NextKeys(DOMAIN output[id2]) :
                  SetUnits(r, id, [UnitAt(r, id) EXCEPT !.loc = SentForward(l, train, nxt)],
                           id2, RecvForward(UnitAt(r, id2), nin[id2], activ[id2],
                                            DOMAIN output[id2],
                                            [id |-> id, value |-> l.act], nxt2))
      /\ UNCHANGED <<staticVars, startVars, runs, buf, reported, callerVars, ghostVars>>

\* A faulty feed-out loop that stores the values in arrival order from the
\* end of the slice.
CollectReversed(r) ==
  /\ cpc[r] = "collect"
  /\ LET id == Layers[Len(Arch)][cidx[r] + 1]
         l  == loc[r][id]
     IN  /\ l.pc = "fire"
         /\ l.cur = outputID
         /\ outv' = [outv EXCEPT ![r][outDim(Arch) - cidx[r]] = l.act]
         /\ \E nxt \in NextKeys(l.todo \ {l.cur}) :
              SetUnit(r, id, [UnitAt(r, id) EXCEPT !.loc = SentForward(l, train, nxt)])
  /\ MoveCaller(r, NextCollect(cidx[r], Arch), "Forward")
  /\ UNCHANGED <<staticVars, startVars, runs, buf, reported, cdata, ghostVars>>

\* s = <-n.Layers[numLayers-1][ii].output[outputID]; output[ii] = s.value
Collect(r) ==
  /\ cpc[r] = "collect"
  /\ LET id == Layers[Len(Arch)][cidx[r] + 1]
         l  == loc[r][id]
     IN  /\ l.pc = "fire"
         /\ l.cur = outputID
         /\ outv' = [outv EXCEPT ![r][cidx[r] + 1] = l.act]
         /\ \E nxt \in NextKeys(l.todo \ {l.cur}) :
              SetUnit(r, id, [UnitAt(r, id) EXCEPT !.loc = SentForward(l, train, nxt)])
  /\ MoveCaller(r, NextCollect(cidx[r], Arch), "Forward")
  /\ UNCHANGED <<staticVars, startVars, runs, buf, reported, cdata, ghostVars>>

\* n.Layers[numLayers-1][ii].inputB <- signal{id: inputID, value: v}
FeedB(r) ==
  /\ cpc[r] = "feedB"
  /\ LET id == Layers[Len(Arch)][cidx[r] + 1]
         u  == UnitAt(r, id)
     IN  /\ u.loc.pc = "backward"
         /\ \E nxt \in NextKeys(DOMAIN u.W) :
              SetUnit(r, id, [u EXCEPT !.loc =
                 RecvBackward(u, activ[id], Cardinality(DOMAIN output[id]),
                              [id |-> inputID, value |-> cdata[cidx[r] + 1]], nxt)])
  /\ MoveCaller(r, NextFeedB(cidx[r], cdata, Arch), "Backward")
  /\ UNCHANGED <<staticVars, startVars, runs, buf, reported, cdata, outv, ghostVars>>

\* A faulty turn of the parameter loop that, besides sending, writes into
\* the gradient accumulators of the upstream peer.
BackpropWritesPeer(r, id) ==
  LET u == UnitAt(r, id)
  IN  /\ u.loc.pc = "backprop"
      /\ u.loc.cur \in DOMAIN outputB[id]
      /\ LET id2 == outputB[id][u.loc.cur].owner
             u2  == UnitAt(r, id2)
         IN  /\ u2.loc.pc = "backward"
             /\ \E nxt \in NextKeys(u.loc.todo \ {u.loc.cur}), nxt2 \in NextKeys(DOMAIN u2.W) :
                  LET v == VisitParam(u, updateFreq, nxt)
                  IN  SetUnits(r, id, [u EXCEPT !.loc = v.loc, !.W = v.W],
                               id2, [u2 EXCEPT !.loc =
                                  RecvBackward(u2, activ[id2], Cardinality(DOMAIN output[id2]),
                                               [id |-> id, value |-> v.ret], nxt2),
                                  !.W = [k \in DOMAIN u2.W |->
                                           [u2.W[k] EXCEPT !.grad = @ + 1]]])
      /\ UNCHANGED <<staticVars, startVars, runs, buf, reported, callerVars, ghostVars>>

\* A turn of the parameter loop of Unit.backward whose key names an
\* upstream peer: c <- signal{id: u.ID, value: gradi} met by <-u2.inputB.
Backprop(r, id) ==
  LET u == UnitAt(r, id)
  IN  /\ u.loc.pc = "backprop"
      /\ u.loc.cur \in DOMAIN outputB[id]
      /\ LET id2 == outputB[id][u.loc.cur].owner
             u2  == UnitAt(r, id2)
         IN  /\ u2.loc.pc = "backward"
             /\ \E nxt \in NextKeys(u.loc.todo \ {u.loc.cur}), nxt2 \in NextKeys(DOMAIN u2.W) :
                  LET v == VisitParam(u, updateFreq, nxt)
                  IN  SetUnits(r, id, [u EXCEPT !.loc = v.loc, !.W = v.W],
                               id2, [u2 EXCEPT !.loc =
                                  RecvBackward(u2, activ[id2], Cardinality(DOMAIN output[id2]),
                                               [id |-> id, value |-> v.ret], nxt2)])
      /\ UNCHANGED <<staticVars, startVars, runs, buf, reported, callerVars, ghostVars>>

\* A turn of the parameter loop whose key has no backward channel (the bias,
\* the input weight): nothing is sent.
BackpropLocal(r, id) ==
  LET u == UnitAt(r, id)
  IN  /\ u.loc.pc = "backprop"
      /\ u.loc.cur \notin DOMAIN outputB[id]
      /\ \E nxt \in NextKeys(u.loc.todo \ {u.loc.cur}) :
           LET v == VisitParam(u, updateFreq, nxt)
           IN  SetUnit(r, id, [u EXCEPT !.loc = v.loc, !.W = v.W])
      /\ UNCHANGED <<staticVars, startVars, runs, buf, reported, callerVars, ghostVars>>

\* u.step(), then step++; without an optimizer u.step() panics.
Step(r, id) ==
  LET u == UnitAt(r, id)
      t == UnitStep(optArg, buf[r][opt[id]], u.W)
  IN  /\ u.loc.pc = "step"
      /\ IF opt[id] = NoOpt
           THEN /\ SetUnit(r, id, [u EXCEPT !.loc.pc = "panic"])
                /\ UNCHANGED buf
           ELSE /\ SetUnit(r, id, [u EXCEPT !.loc = ToStepDone(u.loc), !.W = t.P])
                /\ buf' = [buf EXCEPT ![r][opt[id]] = t.buf]
      /\ UNCHANGED <<staticVars, startVars, runs, reported, callerVars, ghostVars>>

\* A faulty unit that returns from Unit.start after its report.
ReportAndExit(r, id) ==
  LET u == UnitAt(r, id)
  IN  /\ cpc[r] = "sync"
      /\ u.loc.pc = "stepDone"
      /\ SetUnit(r, id, [u EXCEPT !.loc = NoLoc])
      /\ reported' = [reported EXCEPT ![r][id] = @ + 1]
      /\ MoveCaller(r, NextSync(cidx[r], Arch), "Backward")
      /\ UNCHANGED <<staticVars, startVars, runs, buf, cdata, outv, ghostVars>>

\* u.stepDone <- 1 met by <-n.stepDone in Net.sync; the unit loops to
\* Unit.forward, whose first line (the bias term, which rewrites the cached
\* input 1.0 of the bias) belongs to this step, and parks at the receive.
Report(r, id) ==
  LET u == UnitAt(r, id)
  IN  /\ cpc[r] = "sync"
      /\ u.loc.pc = "stepDone"
      /\ SetUnit(r, id, EnterForward(u.loc.step, u.W, u.relu))
      /\ reported' = [reported EXCEPT ![r][id] = @ + 1]
      /\ MoveCaller(r, NextSync(cidx[r], Arch), "Backward")
      /\ UNCHANGED <<staticVars, startVars, runs, buf, cdata, outv, ghostVars>>

UnitNext(r, id) ==
  \/ Fire(r, id)
  \/ Backprop(r, id)
  \/ BackpropLocal(r, id)
  \/ Step(r, id)
  \/ Report(r, id)

CallerNext(r) == FeedIn(r) \/ Collect(r) \/ FeedB(r)

Next ==
  \/ Start
  \/ ForwardCall
  \/ BackwardCall
  \/ \E r \in runs : CallerNext(r)
  \/ \E r \in runs, id \in Units : UnitNext(r, id)

Spec == Init /\ [][Next]_vars

\* A step of a goroutine or of the caller inside a call.  The Go scheduler
\* runs a goroutine that can run, and completes a send whose receiver waits.
Progress ==
  \/ \E r \in runs : CallerNext(r)
  \/ \E r \in runs, id \in Units : UnitNext(r, id)

FairSpec == Init /\ [][Next]_vars /\ WF_vars(Progress)

\* MarginLoss is called on the arguments at hand.
CallMarginLoss ==
  /\ ~loss.ret.done
  /\ loss' = [loss EXCEPT !.ret = MarginLoss(loss.score, loss.target)]
  /\ UNCHANGED <<sgd, av>>
  /\ UNCHANGED <<archArg, optArg, seed, draws, net, Arch, Layers, nin, activ, output, outputB, opt,
               chanVars>>
  /\ UNCHANGED <<startVars, runs, unitVars, callerVars, ghostVars>>

SpecLoss == InitLoss /\ [][CallMarginLoss]_vars

\* opt := NewSGD(lr, momentum, weightDecay) and a Param with a gradient.
InitSGD ==
  /\ archArg = <<>> /\ optArg \in OptInputs /\ seed \in Seeds
  /\ loss = NoLoss /\ av = NoAv /\ NoChans
  /\ \E o \in SGDInputs, data \in Vals, grad \in Vals, rg \in BOOLEAN :
       LET p == [NewParam(data, rg) EXCEPT !.grad = grad]
       IN  sgd = [o |-> o, buf |-> <<>>, p |-> p, n |-> 0, buf0 |-> <<>>, p0 |-> p]
  /\ Unbuilt

\* opt.Step(id, p)
CallStep ==
  /\ sgd.n < MaxSteps
  /\ LET t == SGDStep(sgd.o, sgd.buf, stepID, sgd.p)
     IN  sgd' = [sgd EXCEPT !.buf = t.buf, !.p = t.p, !.n = @ + 1,
                            !.buf0 = sgd.buf, !.p0 = sgd.p]
  /\ UNCHANGED <<loss, av>>
  /\ UNCHANGED <<archArg, optArg, seed, draws, net, Arch, Layers, nin, activ, output, outputB, opt,
               chanVars>>
  /\ UNCHANGED <<startVars, runs, unitVars, callerVars, ghostVars>>

\* p.grad = g between two Steps, as backward passes or a test leave it.
SetGrad ==
  /\ sgd.n \in 1 .. MaxSteps - 1
  /\ sgd.p.grad = 0 \/ ~sgd.p.RequiresGrad
  /\ \E g \in Vals \ {sgd.p.grad} : sgd' = [sgd EXCEPT !.p.grad = g]
  /\ UNCHANGED <<loss, av>>
  /\ UNCHANGED <<archArg, optArg, seed, draws, net, Arch, Layers, nin, activ, output, outputB, opt,
               chanVars>>
  /\ UNCHANGED <<startVars, runs, unitVars, callerVars, ghostVars>>

NextSGD == CallStep \/ SetGrad

\* new(Relu) or new(Identity)
InitActiv ==
  /\ archArg = <<>> /\ optArg \in OptInputs /\ seed \in Seeds
  /\ loss = NoLoss /\ sgd = NoSgd /\ NoChans
  /\ \E a \in {"Relu", "Identity"} : av = [NoAv EXCEPT !.a = a]
  /\ Unbuilt

\* a.Forward(x)
CallActivForward ==
  /\ \E x \in Vals :
       LET f == ActivForward(av.a, av.cached, x)
       IN  av' = [av EXCEPT !.cached = f.value, !.op = "Forward", !.arg = x, !.ret = f.ret,
                            !.fwd = TRUE, !.lastX = x]
  /\ UNCHANGED <<loss, sgd>>
  /\ UNCHANGED <<archArg, optArg, seed, draws, net, Arch, Layers, nin, activ, output, outputB, opt,
               chanVars>>
  /\ UNCHANGED <<startVars, runs, unitVars, callerVars, ghostVars>>

\* a.Backward(g)
CallActivBackward ==
  /\ \E g \in Vals :
       av' = [av EXCEPT !.op = "Backward", !.arg = g,
                        !.ret = ActivBackward(av.a, av.cached, g)]
  /\ UNCHANGED <<loss, sgd>>
  /\ UNCHANGED <<archArg, optArg, seed, draws, net, Arch, Layers, nin, activ, output, outputB, opt,
               chanVars>>
  /\ UNCHANGED <<startVars, runs, unitVars, callerVars, ghostVars>>

NextActiv == CallActivForward \/ CallActivBackward

SpecActiv == InitActiv /\ [][NextActiv]_vars

SpecSGD == InitSGD /\ [][NextSGD]_vars

NextNew == NewMLPPanic \/ NewMLPOk

SpecNew == InitNew /\ [][NextNew]_vars

(***************************************************************************)
(* The barrier.                                                            *)
(***************************************************************************)
\* The pass a unit is in: the loop counter of Unit.start, which is already
\* incremented when the unit stands at its report.
PassAt(l) == IF l.pc = "stepDone" THEN l.step - 1 ELSE l.step

\* The unit has begun the Forward stage of pass k: it has taken an input of
\* that pass (it is past the first receive of Unit.forward) or is beyond it.
Begun(l, k) == PassAt(l) > k \/ (PassAt(l) = k /\ ~(l.pc = "forward" /\ l.ii = 0))

\* C1: no unit begins the Forward stage of pass k+1 until every unit of the
\* network has reported completion of pass k on stepDone; so no unit is in
\* pass k+1 while another is still in pass k.
C1_NoOverlap ==
  \A r \in runs : \A id \in Units, id2 \in Units : \A k \in 1 .. MaxPass :
    Begun(loc[r][id], k + 1) => reported[r][id2] >= k

\* Some unit is inside its second pass, every unit having reported the first.
C1_Witness ==
  /\ \E id \in Units : Begun(loc[1][id], 2) /\ loc[1][id].pc = "fire"
  /\ \A id \in Units : reported[1][id] = 1

\* C2: a drain of the barrier takes exactly one token from every unit: while
\* it runs the units it has heard from are cidx distinct units, each one
\* report ahead of the others; when Backward returns every unit has reported
\* once per Backward call, no unit stands at an unconsumed report, and no
\* unit ever reported more often than the barrier was drained.
C2_OneTokenEach ==
  \A r \in runs :
    /\ \A id \in Units : reported[r][id] <= nBwd
    /\ cpc[r] = "sync" =>
         /\ \A id \in Units : reported[r][id] \in {nBwd - 1, nBwd}
         /\ Cardinality({id \in Units : reported[r][id] = nBwd}) = cidx[r]
    /\ (cpc[r] = "idle" /\ ret[r] = "Backward") =>
         \A id \in Units : reported[r][id] = nBwd /\ loc[r][id].pc # "stepDone"

\* The second drain has returned.
C2_Witness ==
  /\ cpc[1] = "idle" /\ ret[1] = "Backward" /\ nBwd = 2
  /\ \A id \in Units : reported[1][id] = 2

(***************************************************************************)
(* What holds when a call returns.                                         *)
(***************************************************************************)
\* Net.call has returned in run r.
Returned(r, call) == cpc[r] = "idle" /\ ret[r] = call

\* The parameters of unit id that take gradients.
Trainable(r, id) == {k \in DOMAIN W[r][id] : W[r][id][k].RequiresGrad}

\* C4: with train = true, when Net.Backward returns every unit has finished
\* the Backward stage of the pass and, when a step was due in it, has applied
\* the step (the gradients are zeroed); every unit has reported and waits
\* for the first input of the next pass, so none is changing its weights.
C4_BackwardReturns ==
  \A r \in runs :
    (Returned(r, "Backward") /\ train) =>
      \A id \in Units :
        /\ loc[r][id].pc = "forward" /\ loc[r][id].ii = 0
        /\ loc[r][id].step = nBwd + 1
        /\ StepDue(nBwd, updateFreq) => \A k \in Trainable(r, id) : W[r][id][k].grad = 0

\* Backward has returned from a pass in which the step was due and moved a weight.
C4_Witness ==
  /\ Returned(1, "Backward") /\ train /\ nBwd = 2 /\ updateFreq = 2
  /\ \E id \in Units : \E k \in Trainable(1, id) : W[1][id][k].Data # Built(archArg, seed).W[id][k].Data
  /\ \A id \in Units : loc[1][id].pc = "forward"

\* C5: when Net.Forward returns every unit of every layer has completed the
\* Forward stage of the pass: it has taken all its inputs and made all its
\* forward sends, and stands at the next stage of Unit.start.
C5_ForwardReturns ==
  \A r \in runs :
    Returned(r, "Forward") =>
      \A id \in Units :
        /\ PassAt(loc[r][id]) = nFwd
        /\ loc[r][id].pc = IF train THEN "backward" ELSE "stepDone"
        /\ train => loc[r][id].ii = 0

\* The second Forward has returned on a network with several output units.
C5_Witness ==
  /\ Returned(1, "Forward") /\ nFwd = 2 /\ outDim(Arch) > 1
  /\ \A id \in Units : loc[1][id].pc = "backward"

(***************************************************************************)
(* The sequential reference.                                               *)
(***************************************************************************)
\* Run r and the reference agree on every weight and gradient accumulator.
AgreesWithRef(r) ==
  \A id \in Units : \A k \in Trainable(r, id) :
    /\ W[r][id][k].Data = ref.Wt[id][k]
    /\ W[r][id][k].grad = ref.G[id][k]

\* C6: at every pass boundary (Backward, with its barrier, has returned) the
\* weights and gradient accumulators of the concurrent network equal those
\* of the sequential layer-by-layer reference fed the same calls.
C6_MatchesReference ==
  \A r \in runs : Returned(r, "Backward") => AgreesWithRef(r)

\* Two passes are done, the second with a step after two accumulated
\* gradients, and some weight has moved from its initial value.
C6_Witness ==
  /\ Returned(1, "Backward") /\ nBwd = 2 /\ updateFreq = 2
  /\ AgreesWithRef(1)
  /\ \E id \in Units : \E k \in Trainable(1, id) :
       W[1][id][k].Data # Built(archArg, seed).W[id][k].Data

(***************************************************************************)
(* Calls with an argument of the wrong length.                             *)
(***************************************************************************)
\* The step leaves the network as it was: the units, the caller's position,
\* the pending data, the outputs, the reference and the pass counts.
Untouched ==
  UNCHANGED <<staticVars, startVars, runs, unitVars, cpc, cidx, cdata, outv,
              nFwd, nBwd, alternating, ref>>

\* The step is a call of Net.op whose argument has a length other than n.
BadCall(op, n) == Idle /\ lastCall'.op = op /\ lastCall'.len # n

\* C8: Forward with an input whose length differs from Arch[0] fails before
\* any signal is sent: the call ends in a panic and no unit, channel or
\* caller state changes (so a valid Forward issued next finds the network
\* as it was).
C8_ForwardFailsClean ==
  [][BadCall("Forward", Arch[1]) => (Untouched /\ \A r \in runs : ret'[r] = "panic")]_vars

\* A valid Forward has returned, the call before it having panicked after
\* an earlier pass.
C8_Witness ==
  /\ Returned(1, "Forward") /\ prevRet = "panic" /\ nFwd = 2
  /\ lastCall = [op |-> "Forward", len |-> Arch[1]]

\* C9: Backward with a gradient whose length differs from the size of the
\* last layer fails before any gradient is sent and before the barrier is
\* drained: the call ends in a panic and no unit, gradient accumulator,
\* channel or caller state changes.
C9_BackwardFailsClean ==
  [][BadCall("Backward", outDim(Arch)) => (Untouched /\ \A r \in runs : ret'[r] = "panic")]_vars

\* A Backward with a wrong length has panicked while the units waited for
\* the gradients of a pass, nothing having been reported for it.
C9_Witness ==
  /\ cpc[1] = "idle" /\ ret[1] = "panic" /\ lastCall.op = "Backward"
  /\ lastCall.len # outDim(Arch) /\ nFwd = 1 /\ train
  /\ \A id \in Units : loc[1][id].pc = "backward" /\ reported[1][id] = 0

(***************************************************************************)
(* Construction.                                                           *)
(***************************************************************************)
\* C10: NewMLP fails for every architecture with fewer than 3 layers and for
\* every architecture with a layer size below 1, whatever the other entries:
\* on such an argument no network is ever built, and once NewMLP has run it
\* has panicked leaving no layer and no unit.
C10_BadArchFails ==
  (Len(archArg) < 3 \/ \E i \in 1 .. Len(archArg) : archArg[i] < 1) =>
    /\ net \in {"none", "panic"}
    /\ Layers = <<>> /\ nin = <<>> /\ W[1] = <<>>

\* NewMLP has panicked on three layers of which only the middle one is
\* too small.
C10_Witness ==
  /\ net = "panic" /\ Len(archArg) = 3
  /\ archArg[1] >= 1 /\ archArg[2] < 1 /\ archArg[3] >= 1

(***************************************************************************)
(* Termination of the calls.                                               *)
(***************************************************************************)
\* C3: after Start(train = true, updateFreq >= 1), while the caller has
\* alternated valid Forward and Backward calls, the call in progress
\* returns eventually under fair scheduling: Forward with its outputs,
\* Backward after its barrier.
C3_CallsReturn ==
  (started /\ train /\ updateFreq >= 1 /\ alternating /\ cpc[1] # "idle")
    ~> (cpc[1] = "idle" /\ ret[1] = lastCall.op)

\* An alternating caller has got its second Backward back from a network
\* with several output units.
C3_Witness ==
  /\ started /\ train /\ updateFreq >= 1 /\ alternating
  /\ Returned(1, "Backward") /\ nFwd = 2 /\ nBwd = 2 /\ outDim(Arch) > 1

(***************************************************************************)
(* Determinism.  The reference is a function of the initial weights and of *)
(* the calls issued: it changes in ForwardCall and BackwardCall only, by   *)
(* the call's argument.  Runs that agree with it agree with each other.    *)
(***************************************************************************)
\* The weights and momentum buffers of run r are those of the reference.
SameWeights(r) ==
  \A id \in Units :
    /\ \A k \in Trainable(r, id) : W[r][id][k].Data = ref.Wt[id][k]
    /\ buf[r][opt[id]] = ref.B[id]

IsInputUnit(id) ==
  /\ activ[id] = "Identity" /\ inputID \in DOMAIN W[1][id]
  /\ biasID \notin DOMAIN W[1][id] /\ outputID \notin DOMAIN output[id]

IsHiddenUnit(id) ==
  /\ activ[id] = "Relu" /\ biasID \in DOMAIN W[1][id]
  /\ inputID \notin DOMAIN W[1][id] /\ outputID \notin DOMAIN output[id]

IsOutputUnit(id) ==
  /\ activ[id] = "Identity" /\ biasID \in DOMAIN W[1][id]
  /\ inputID \notin DOMAIN W[1][id] /\ outputID \in DOMAIN output[id]

ValidArch(arch) == Len(arch) >= 3 /\ \A i \in 1 .. Len(arch) : arch[i] >= 1

\* C11: on every architecture of at least 3 layers with every size at least
\* 1 NewMLP does not fail, and the Net it returns has Arch equal to the
\* argument, as many layers as Arch has entries, Arch[i] units in layer i,
\* pairwise distinct; layer 0 holds input units, the last layer output units
\* and the layers between hidden units.
C11_ValidArchBuilds ==
  ValidArch(archArg) =>
    /\ net # "panic"
    /\ net = "built" =>
         /\ Arch = archArg
         /\ Len(Layers) = Len(Arch)
         /\ \A i \in 1 .. Len(Arch) :
              /\ Len(Layers[i]) = Arch[i]
              /\ Cardinality(Ids(Layers[i])) = Arch[i]
              /\ \A j \in 1 .. Arch[i] :
                   /\ Layers[i][j] \in Units
                   /\ i = 1 => IsInputUnit(Layers[i][j])
                   /\ i = Len(Arch) => IsOutputUnit(Layers[i][j])
                   /\ (1 < i /\ i < Len(Arch)) => IsHiddenUnit(Layers[i][j])
         /\ Cardinality(Units) = totalUnits(Arch)

\* A network of four layers of different sizes has been built.
C11_Witness ==
  /\ net = "built" /\ archArg = <<2, 1, 2, 1>>
  /\ Len(Layers[1]) = 2 /\ IsHiddenUnit(Layers[3][2])

(***************************************************************************)
(* Calls out of turn.                                                      *)
(***************************************************************************)
\* Every unit of run r is parked at the first receive of Unit.forward.
AllAtForward(r) == \A id \in Units : loc[r][id].pc = "forward" /\ loc[r][id].ii = 0

\* C12: with train = true, a Backward with a gradient of the right length
\* that no Forward of the pass precedes never completes.  The only step
\* that leads to a state with more Backward than Forward calls is that call
\* itself; it leaves the caller at its first send of a gradient, the call
\* pending, every unit parked at the first receive of its Forward stage;
\* and no step leaves such a state.
C12_BackwardFirstBlocks ==
  [][(train /\ nBwd' > nFwd') =>
       /\ nBwd = nFwd /\ Idle
       /\ UNCHANGED unitVars
       /\ \A r \in runs :
            /\ cpc'[r] = "feedB" /\ cidx'[r] = 0 /\ ret'[r] = "pending"
            /\ AllAtForward(r)]_vars

\* After one full pass a second Backward in a row has been called and the
\* caller stands at its first send.
C12_Witness ==
  /\ train /\ nFwd = 1 /\ nBwd = 2
  /\ cpc[1] = "feedB" /\ cidx[1] = 0 /\ ret[1] = "pending"
  /\ AllAtForward(1) /\ \A id \in Units : reported[1][id] = 1

\* C13: with train = false a caller that issues valid Forward calls one
\* after the other, with no Backward and no barrier between them, gets every
\* call back under fair scheduling.
C13_ForwardOnlyReturns ==
  (started /\ ~train /\ nBwd = 0 /\ prevRet # "panic"
     /\ cpc[1] # "idle" /\ lastCall.op = "Forward")
    ~> Returned(1, "Forward")

(***************************************************************************)
(* When the units step.                                                    *)
(***************************************************************************)
\* Unit id of run r is in an iteration whose 1-based index is a multiple of
\* the update frequency, training being on.  The index is one more than the
\* number of iterations the unit has reported.
DueNow(r, id) ==
  /\ train /\ updateFreq >= 1
  /\ (reported[r][id] + 1) % updateFreq = 0

\* C14: a unit enters Step only in an iteration whose 1-based index is a
\* multiple of updateFreq >= 1 with train = true, and it ends no such
\* iteration without having entered Step; the index is the same pass count
\* for every unit.  With train = false or updateFreq <= 0 no unit enters
\* Step.
C14_StepWhenDue ==
  [][\A r \in runs : \A id \in Units :
       /\ (loc'[r][id].pc = "step" /\ loc[r][id].pc # "step") => DueNow(r, id)
       /\ (loc'[r][id].pc = "stepDone" /\ loc[r][id].pc # "stepDone") =>
            /\ (loc[r][id].pc = "step") <=> DueNow(r, id)
            /\ loc[r][id].step = reported[r][id] + 1
            /\ reported[r][id] + 1 \in {nFwd, nBwd}]_vars

\* With updateFreq = 2 a unit stands in Step in its second iteration, having
\* ended the first without one.
C14_Witness ==
  /\ train /\ updateFreq = 2
  /\ \E id \in Units : loc[1][id].pc = "step" /\ loc[1][id].step = 2 /\ reported[1][id] = 1

(***************************************************************************)
(* Forward only.                                                           *)
(***************************************************************************)
\* C15: with train = false no unit is ever in its Backward or Step stage,
\* and every parameter value, gradient accumulator and optimizer buffer is
\* what NewMLP left, however many Forward calls were issued.
C15_ForwardOnlyFrame ==
  (started /\ ~train) =>
    \A r \in runs : \A id \in Units :
      /\ loc[r][id].pc \in {"forward", "fire", "stepDone"}
      /\ \A k \in DOMAIN W[r][id] :
           /\ W[r][id][k].Data = Built(archArg, seed).W[id][k].Data
           /\ W[r][id][k].grad = 0
      /\ buf[r][opt[id]] = <<>>

\* With train = false a Forward has returned its outputs, the hidden units
\* having cached what they received, and a second one has been issued.
C15_Witness ==
  /\ started /\ ~train /\ nFwd = 2 /\ cpc[1] = "feed"
  /\ \A id \in Units : loc[1][id].pc = "stepDone"
  /\ \E id \in Units : \E k \in Trainable(1, id) : W[1][id][k].value # 0

(***************************************************************************)
(* Optimizer instances.                                                    *)
(***************************************************************************)
\* C16: every unit has an optimizer instance of its own: no two units share
\* one, a momentum buffer changes only in a Step of the one unit that owns
\* it, that Step changes no other buffer, and the buffer holds entries for
\* that unit's trainable parameters only.
C16_OwnOptimizer ==
  [][\A r \in runs :
       /\ \A id \in Units, id2 \in Units : opt[id] = opt[id2] => id = id2
       /\ \A id \in Units :
            /\ buf'[r][opt[id]] # buf[r][opt[id]] =>
                 /\ loc[r][id].pc = "step" /\ loc'[r][id].pc = "stepDone"
                 /\ \A id2 \in Units \ {id} : buf'[r][opt[id2]] = buf[r][opt[id2]]
            /\ DOMAIN buf'[r][opt[id]] \subseteq Trainable(r, id)]_vars

\* With momentum, two units of one layer hold different buffer entries
\* under the same parameter id.
C16_Witness ==
  /\ optArg.Momentum > 0
  /\ \E i \in 1 .. Len(Layers) : \E id \in Ids(Layers[i]), id2 \in Ids(Layers[i]) :
       /\ id # id2
       /\ \E k \in DOMAIN buf[1][opt[id]] \cap DOMAIN buf[1][opt[id2]] :
            buf[1][opt[id]][k] # buf[1][opt[id2]][k]

(***************************************************************************)
(* The outputs of Forward.                                                 *)
(***************************************************************************)
\* C17: Forward returns one value per output unit, in unit order: entry i is
\* the value output unit i of the last layer fired in this pass, whichever
\* output unit was ready first.
C17_OutputsInUnitOrder ==
  \A r \in runs :
    Returned(r, "Forward") =>
      /\ Len(outv[r]) = Arch[Len(Arch)]
      /\ \A i \in 1 .. Arch[Len(Arch)] :
           LET l == loc[r][Layers[Len(Arch)][i]]
           IN  PassAt(l) = nFwd /\ l.pc # "fire" /\ outv[r][i] = l.act

\* A second Forward has returned two different outputs.
C17_Witness ==
  /\ Returned(1, "Forward") /\ nFwd = 2 /\ Len(outv[1]) = 2
  /\ outv[1][1] # outv[1][2]

(***************************************************************************)
(* The margin loss.                                                        *)
(***************************************************************************)
\* C18: MarginLoss(score, target) fails exactly when target is neither +1
\* nor -1; otherwise the loss is 1 - score*target when that is positive and
\* 0 when not, and the gradient is 0 when score*target >= 1, the boundary
\* included, and -target otherwise.
C18_MarginLoss ==
  loss.ret.done =>
    LET m == loss.score * loss.target
    IN  /\ loss.ret.panic <=> loss.target \notin {1, -1}
        /\ ~loss.ret.panic =>
             /\ loss.ret.loss = (IF 1 - m > 0 THEN 1 - m ELSE 0)
             /\ loss.ret.grad = (IF m >= 1 THEN 0 ELSE 0 - loss.target)

\* MarginLoss has returned on the boundary score*target = 1 with target -1.
C18_Witness ==
  /\ loss.ret.done /\ ~loss.ret.panic
  /\ loss.target = -1 /\ loss.score = -1 /\ loss.ret.grad = 0 /\ loss.ret.loss = 0

(***************************************************************************)
(* The Forward stage of a unit.                                            *)
(***************************************************************************)
\* The upstream peers of a unit: the units connected into it.
Upstream(id) == DOMAIN outputB[id]

\* The unit at l has delivered the signal of its pass to the peer id2.
SentTo(l, id2) == l.pc \notin {"off", "forward"} /\ ~(l.pc = "fire" /\ id2 \in l.todo)

\* The upstream peers whose signal of pass k the unit id has taken.
Senders(r, id, k) ==
  {p \in Upstream(id) : PassAt(loc[r][p]) = k /\ SentTo(loc[r][p], id)}

RECURSIVE WeightedSum(_, _)
\* The sum of Data * cached input over the parameters named by keys.
WeightedSum(P, keys) ==
  IF keys = {} THEN 0
  ELSE LET k == CHOOSE x \in keys : TRUE
       IN  P[k].Data * P[k].value + WeightedSum(P, keys \ {k})

\* In its Forward stage of pass k a hidden or output unit has taken as many
\* signals as upstream peers have sent it one in pass k, no peer is ahead of
\* it, the cached input of each sender is the value that sender fired, and
\* once it fires every peer has sent and the fired value is the activation
\* of the bias plus each peer's weighted signal, once.
ForwardStageOk(r, id) ==
  LET l == loc[r][id]
      k == PassAt(l)
      S == Senders(r, id, k)
  IN  /\ \A p \in Upstream(id) : PassAt(loc[r][p]) <= k
      /\ \A p \in S : W[r][id][p].value = loc[r][p].act
      /\ l.pc = "forward" => Cardinality(S) = l.ii /\ l.ii < nin[id]
      /\ l.pc = "fire" =>
           /\ S = Upstream(id)
           /\ l.ii = nin[id]
           /\ l.act = ActivForward(activ[id], relu[r][id],
                                   WeightedSum(W[r][id], DOMAIN W[r][id])).ret

\* The receive of unit id in this step took the signal of exactly one
\* upstream peer, which had not sent before and is in the same pass.
TookOne(r, id) ==
  LET l == loc[r][id]
  IN  (l.pc = "forward" /\ loc'[r][id] # l) =>
        \E p \in Upstream(id) :
          /\ PassAt(loc[r][p]) = PassAt(l)
          /\ ~SentTo(loc[r][p], id) /\ SentTo(loc'[r][p], id)
          /\ \A q \in Upstream(id) \ {p} : loc'[r][q] = loc[r][q]

\* C19: in every pass the Forward stage of a hidden or output unit consumes
\* exactly one signal from each upstream peer, sent by that peer in the
\* same pass: no peer contributes twice, none is omitted, and no signal of
\* a later pass is counted.
C19_OneSignalPerPeer ==
  /\ [](\A r \in runs : \A id \in Units :
          (Upstream(id) # {} /\ loc[r][id].pc \in {"forward", "fire"}) => ForwardStageOk(r, id))
  /\ [][\A r \in runs : \A id \in Units : Upstream(id) # {} => TookOne(r, id)]_vars

\* A unit with two upstream peers fires in the second pass on two distinct
\* signals.
C19_Witness ==
  \E r \in runs : \E id \in Units :
    /\ Cardinality(Upstream(id)) = 2
    /\ loc[r][id].pc = "fire" /\ PassAt(loc[r][id]) = 2
    /\ \E p, q \in Upstream(id) : W[r][id][p].value # W[r][id][q].value

(***************************************************************************)
(* The Backward stage of a unit.                                           *)
(***************************************************************************)
\* The downstream peers of a unit: the units it is connected into.
Downstream(id) == {k \in DOMAIN output[id] : output[id][k].field = "input"}

\* The unit at l has visited the parameter of its upstream peer id in the
\* loop of Unit.backward of its pass, sending it the gradient.
SentBack(l, id) == l.pc \in {"step", "stepDone"} \/ (l.pc = "backprop" /\ id \notin l.todo)

\* The downstream peers whose gradient of pass k the unit id has taken; a
\* peer that has reported pass k stands at the first receive of pass k+1.
GradSenders(r, id, k) ==
  {q \in Downstream(id) :
     \/ PassAt(loc[r][q]) = k /\ SentBack(loc[r][q], id)
     \/ PassAt(loc[r][q]) = k + 1 /\ loc[r][q].pc = "forward" /\ loc[r][q].ii = 0}

\* In its Backward stage of pass k a hidden or input unit has taken as many
\* gradients as downstream peers have sent it one in pass k, and it
\* back-propagates only when every peer has.
BackwardStageOk(r, id) ==
  LET l == loc[r][id]
      k == PassAt(l)
      S == GradSenders(r, id, k)
      nout == Cardinality(DOMAIN output[id])
  IN  /\ \A q \in Downstream(id) : PassAt(loc[r][q]) \in {k, k + 1}
      /\ l.pc = "backward" => Cardinality(S) = l.ii /\ l.ii < nout
      /\ l.pc = "backprop" => S = Downstream(id) /\ l.ii = nout

\* The gradient held after a receive of value v: the sum so far, through
\* the activation's derivative after the last one.
GradAfter(r, id, l2, v) ==
  LET g == loc[r][id].grad + v
  IN  l2.grad = IF l2.pc = "backprop" THEN ActivBackward(activ[id], relu[r][id], g) ELSE g

\* The receive of unit id in this step took the gradient of exactly one
\* downstream peer, which had not sent before and is in the same pass, and
\* added that peer's gradient for this unit's weight.
TookOneB(r, id) ==
  LET l == loc[r][id]
  IN  (l.pc = "backward" /\ loc'[r][id] # l) =>
        \E q \in Downstream(id) :
          /\ PassAt(loc[r][q]) = PassAt(l)
          /\ ~SentBack(loc[r][q], id) /\ SentBack(loc'[r][q], id)
          /\ \A q2 \in Downstream(id) \ {q} : loc'[r][q2] = loc[r][q2]
          /\ loc'[r][id].ii = l.ii + 1
          /\ GradAfter(r, id, loc'[r][id], W[r][q][id].Data * loc[r][q].grad)

\* The output units, in the order Net.Backward feeds them.
OutputUnits == Layers[Len(Layers)]

\* While Net.Backward feeds, the output units it has fed are exactly those
\* past the receive of the pass; each took one gradient.
FedOk(r) ==
  \A i \in 1 .. Len(OutputUnits) :
    LET l == loc[r][OutputUnits[i]]
    IN  /\ (cpc[r] = "feedB") =>
             (i <= cidx[r] <=> (PassAt(l) = nBwd /\ l.pc \in {"backprop", "step", "stepDone"}))
        /\ l.pc \in {"backprop", "step"} => l.ii = 1

\* The receive of an output unit in this step took the caller's gradient
\* for that unit, the only one of its pass.
TookExternal(r, i) ==
  LET id == OutputUnits[i]
      l  == loc[r][id]
  IN  (l.pc = "backward" /\ loc'[r][id] # l) =>
        /\ cpc[r] = "feedB" /\ cidx[r] + 1 = i /\ PassAt(l) = nBwd
        /\ l.ii = 0 /\ loc'[r][id].pc = "backprop"
        /\ GradAfter(r, id, loc'[r][id], cdata[i])

\* C20: in every pass the Backward stage of a hidden or input unit sums
\* exactly one gradient from each downstream peer, sent in the same pass,
\* none twice and none missed; an output unit consumes exactly one
\* external gradient.
C20_OneGradientPerPeer ==
  /\ [](train => \A r \in runs :
          /\ FedOk(r)
          /\ \A id \in Units :
               (Downstream(id) # {} /\ loc[r][id].pc \in {"backward", "backprop"})
                 => BackwardStageOk(r, id))
  /\ [][\A r \in runs :
          /\ \A id \in Units : Downstream(id) # {} => TookOneB(r, id)
          /\ \A i \in 1 .. Len(OutputUnits) : TookExternal(r, i)]_vars

\* A unit with two downstream peers back-propagates in the second pass a
\* sum of two gradients, after both output units took theirs.
C20_Witness ==
  \E r \in runs : \E id \in Units :
    /\ train /\ Cardinality(Downstream(id)) = 2
    /\ loc[r][id].pc = "backprop" /\ PassAt(loc[r][id]) = 2
    /\ loc[r][id].grad # 0
    /\ \A q \in Downstream(id) : loc[r][q].grad # 0

(***************************************************************************)
(* The order of the stages in Unit.start.                                  *)
(***************************************************************************)
\* The loop at l stands at the last key of its range.
LastKey(l) == l.todo = {l.cur}

\* The loop at l moves on to another key and stays in its stage.
NextKey(l, l2) ==
  /\ l2.pc = l.pc /\ l2.todo = l.todo \ {l.cur} /\ l2.cur \in l2.todo /\ l2.step = l.step

\* A move of a unit from l to l2 follows Unit.start: Forward (receives,
\* then sends), Backward when training (receives, then the parameter loop
\* with its sends), Step when due, the report, and Forward again.
StageOrder(l, l2) ==
  CASE l.pc = "off"      -> l2.pc = "forward" /\ l2.step = 1
    [] l.pc = "forward"  -> l2.pc \in {"forward", "fire"} /\ l2.step = l.step
    [] l.pc = "fire"     ->
         \/ NextKey(l, l2)
         \/ LastKey(l) /\ train /\ l2.pc = "backward" /\ l2.ii = 0 /\ l2.step = l.step
         \/ LastKey(l) /\ ~train /\ l2.pc = "stepDone" /\ l2.step = l.step + 1
    [] l.pc = "backward" -> l2.pc \in {"backward", "backprop"} /\ l2.step = l.step
    [] l.pc = "backprop" ->
         \/ NextKey(l, l2)
         \/ LastKey(l) /\ l2.pc = "step" /\ l2.step = l.step
         \/ LastKey(l) /\ l2.pc = "stepDone" /\ l2.step = l.step + 1
    [] l.pc = "step"     -> l2.pc = "stepDone" /\ l2.step = l.step + 1
    [] l.pc = "stepDone" -> l2.pc = "forward" /\ l2.ii = 0 /\ l2.step = l.step
    [] OTHER -> FALSE

\* C21: within every unit and every iteration the stages occur in the order
\* Forward, Backward, Step, report: a unit starts Backward only when its
\* Forward has finished sending, and Step only when its Backward has.
C21_StagesInOrder ==
  [][\A r \in runs : \A id \in Units :
       loc'[r][id] # loc[r][id] => StageOrder(loc[r][id], loc'[r][id])]_vars

\* A unit with two downstream peers stands before the Step of its second
\* iteration.
C21_Witness ==
  \E r \in runs : \E id \in Units :
    /\ Cardinality(DOMAIN output[id]) = 2
    /\ loc[r][id].pc = "step" /\ loc[r][id].step = 2

(***************************************************************************)
(* The completion report.                                                  *)
(***************************************************************************)
\* The unit at l has finished the last stage of its iteration with the move
\* to l2: Forward when not training, else Step when due, else Backward.
LastStageDone(l, l2) ==
  /\ l2.pc = "stepDone"
  /\ \/ l.pc = "fire" /\ ~train
     \/ l.pc = "backprop" /\ train /\ ~StepDue(l.step, updateFreq)
     \/ l.pc = "step" /\ train /\ StepDue(l.step, updateFreq)

\* C22: every unit reports completion on the shared channel exactly once
\* per loop iteration, after the last stage of the iteration and before the
\* next Forward, whether train is true or false and whether or not a Step
\* was performed.
C22_OneReportEach ==
  /\ [](\A r \in runs : \A id \in Units :
          loc[r][id].pc # "off" => reported[r][id] = PassAt(loc[r][id]) - 1)
  /\ [][\A r \in runs : \A id \in Units :
          LET l == loc[r][id]  l2 == loc'[r][id]
          IN  /\ reported'[r][id] # reported[r][id] <=> (l.pc = "stepDone" /\ l2.pc = "forward")
              /\ reported'[r][id] # reported[r][id] => reported'[r][id] = reported[r][id] + 1
              /\ (l.pc \notin {"off", "forward"} /\ l2.pc = "forward") => l.pc = "stepDone"
              /\ (l.pc \in {"fire", "backprop", "step"} /\ l2.pc \notin {l.pc, "backward", "step"})
                   => LastStageDone(l, l2)
              /\ (l.pc # "stepDone" /\ l2.pc = "stepDone") => LastStageDone(l, l2)]_vars

\* A unit has reported its first iteration, in which no Step was due, and
\* stands at the report of its second, in which one was.
C22_Witness ==
  \E r \in runs : \E id \in Units :
    /\ train /\ updateFreq = 2
    /\ reported[r][id] = 1 /\ loc[r][id].pc = "stepDone" /\ loc[r][id].step = 3

(***************************************************************************)
(* A hidden unit that did not fire.                                        *)
(***************************************************************************)
\* The pre-activation Relu cached in the Forward stage is not positive.
Dead(r, id) == activ[id] = "Relu" /\ relu[r][id] <= 0

\* A step of a unit that did not fire, in its Backward stage: it leaves the
\* receive loop only into the parameter loop over all its parameters with a
\* zero gradient; every turn of that loop leaves its accumulators as they
\* are, and a turn at an upstream peer's key hands that peer the value 0.
DeadStep(r, id) ==
  LET l == loc[r][id]  l2 == loc'[r][id]
  IN  /\ (l.pc = "backward" /\ l2.pc # "backward") =>
           l2.pc = "backprop" /\ l2.grad = 0 /\ l2.todo = DOMAIN W[r][id]
             /\ l.ii + 1 = Cardinality(Downstream(id))
      /\ (l.pc = "backprop" /\ l2 # l) =>
           /\ W'[r][id] = W[r][id]
           /\ l.cur \in Upstream(id) =>
                /\ loc[r][l.cur].pc = "backward"
                /\ loc'[r][l.cur].ii = loc[r][l.cur].ii + 1
                /\ GradAfter(r, l.cur, loc'[r][l.cur], 0)

\* A unit that did not fire is in its Backward stage while Backward runs.
DeadInBackward ==
  /\ train /\ alternating /\ cpc[1] # "idle" /\ lastCall.op = "Backward"
  /\ \E id \in Units : Dead(1, id) /\ loc[1][id].pc \in {"backward", "backprop"}

\* C23: a hidden unit whose pre-activation in the current pass is <= 0
\* still completes the whole Backward stage: it takes a gradient from every
\* downstream peer, sends one gradient of value zero to every upstream
\* peer, adds zero to its accumulators and reports, so that no peer is left
\* waiting and the pass ends.
C23_DeadUnitTakesPart ==
  /\ [](\A r \in runs : \A id \in Units :
          (Dead(r, id) /\ loc[r][id].pc = "backprop") =>
             loc[r][id].grad = 0 /\ GradSenders(r, id, PassAt(loc[r][id])) = Downstream(id))
  /\ [][\A r \in runs : \A id \in Units :
          (Dead(r, id) /\ loc[r][id].pc \in {"backward", "backprop"}) => DeadStep(r, id)]_vars
  /\ DeadInBackward ~> (\A id \in Units : reported[1][id] = nBwd)

\* In the second pass a unit that did not fire has sent its zero gradient
\* upstream and reported, and the pass has ended.
C23_Witness ==
  /\ Returned(1, "Backward") /\ nBwd = 2
  /\ \E id \in Units : Dead(1, id) /\ Upstream(id) # {} /\ reported[1][id] = 2

(***************************************************************************)
(* The gradient accumulators.                                              *)
(***************************************************************************)
\* A change of the accumulator of parameter k of unit id in this step is
\* the turn of that unit's Backward at k, which adds the pass's
\* contribution grad * cached input, or that unit's Step, which zeroes it.
GradChange(r, id, k) ==
  LET l == loc[r][id]
      p == W[r][id][k]
  IN  W'[r][id][k].grad # p.grad =>
        \/ l.pc = "backprop" /\ l.cur = k /\ W'[r][id][k].grad = p.grad + l.grad * p.value
        \/ l.pc = "step" /\ W'[r][id][k].grad = 0

RECURSIVE SumPasses(_, _, _, _)
\* What passes from .. to of the reference added to the gradient of k.
SumPasses(id, k, from, to) ==
  IF from > to THEN 0 ELSE ref.hist[to][id][k] + SumPasses(id, k, from, to - 1)

\* C24: a trainable parameter's accumulated gradient is changed only by its
\* own unit's Backward stage, which adds that pass's contribution, and by
\* Step, which resets it to zero; the gradient a Step consumes is the sum
\* of the contributions of the updateFreq passes since the previous Step.
C24_GradientAccumulates ==
  /\ [](\A r \in runs : \A id \in Units :
          loc[r][id].pc = "step" =>
            \A k \in Trainable(r, id) :
              W[r][id][k].grad =
                SumPasses(id, k, loc[r][id].step - updateFreq + 1, loc[r][id].step))
  /\ [][\A r \in runs : \A id \in Units : \A k \in DOMAIN W[r][id] :
          /\ GradChange(r, id, k)
          /\ (loc[r][id].pc = "step" /\ loc'[r][id].pc # "step" /\ W[r][id][k].RequiresGrad)
               => W'[r][id][k].grad = 0]_vars

\* With updateFreq = 2 a unit stands before its Step holding a gradient to
\* which both passes contributed.
C24_Witness ==
  \E r \in runs : \E id \in Units : \E k \in Trainable(r, id) :
    /\ updateFreq = 2 /\ loc[r][id].pc = "step" /\ loc[r][id].step = 2
    /\ ref.hist[1][id][k] # 0 /\ ref.hist[2][id][k] # 0
    /\ W[r][id][k].grad # ref.hist[2][id][k]

(***************************************************************************)
(* The wiring.                                                             *)
(***************************************************************************)
\* The parameters of a unit that weigh a peer: all but the bias and the
\* fixed weight of the external input, which Weight keeps in the same map.
PeerWeights(id) == DOMAIN W[1][id] \ {biasID, inputID}

\* The forward channels of a unit towards peers: all but the channel the
\* caller reads, which an output unit keeps in the same map.
ForwardOut(id) == DOMAIN output[id] \ {outputID}

\* The ids of layer i, empty beyond the ends.
LayerIds(i) == IF i \in 1 .. Len(Layers) THEN Ids(Layers[i]) ELSE {}

\* Unit id of layer i is wired to the whole of layers i-1 and i+1 and to
\* nothing else; each channel is the peer's own receiving channel.
WiredAsLayer(id, i) ==
  /\ PeerWeights(id) = LayerIds(i - 1)
  /\ DOMAIN outputB[id] = LayerIds(i - 1)
  /\ ForwardOut(id) = LayerIds(i + 1)
  /\ nin[id] = IF i = 1 THEN 1 ELSE Cardinality(LayerIds(i - 1))
  /\ \A k \in DOMAIN outputB[id] : outputB[id][k] = Chan(k, "inputB")
  /\ \A k \in ForwardOut(id) : output[id][k] = Chan(k, "input")

\* C25: after construction, for every unit the key set of its weights
\* equals the key set of its backward output channels equals the ids of the
\* previous layer, and the key set of its forward output channels equals
\* the ids of the next layer: layer i is wired to all of layer i+1 and to
\* no other layer.
C25_FullyConnected ==
  net = "built" =>
    \A i \in 1 .. Len(Layers) : \A id \in LayerIds(i) : WiredAsLayer(id, i)

\* A network of four layers with two units in the second and in the third
\* has been built.
C25_Witness ==
  /\ net = "built" /\ Len(Layers) = 4
  /\ Cardinality(LayerIds(2)) = 2 /\ Cardinality(LayerIds(3)) = 2

(***************************************************************************)
(* What never changes after construction.                                  *)
(***************************************************************************)
\* The step leaves the parameter map of unit id with the same keys, each
\* with the same trainability.
SameKeys(r, id) ==
  /\ DOMAIN W'[r][id] = DOMAIN W[r][id]
  /\ \A k \in DOMAIN W[r][id] : W'[r][id][k].RequiresGrad = W[r][id][k].RequiresGrad

\* C26: no Forward, Backward, Step or barrier action changes the
\* architecture, the layer membership of a unit, the channel wiring or the
\* key set of any unit's parameter map; only parameter values, gradient
\* accumulators, cached inputs, activation caches and optimizer buffers
\* change after construction.
C26_StructureFixed ==
  [][/\ UNCHANGED <<Arch, Layers, nin, activ, output, outputB, opt>>
     /\ DOMAIN W' = DOMAIN W
     /\ \A r \in runs : /\ DOMAIN W'[r] = DOMAIN W[r]
                         /\ \A id \in Units : SameKeys(r, id)]_vars

\* Two passes are done, a Step has filled a momentum buffer and moved a
\* weight, and the units stand in their third Forward.
C26_Witness ==
  /\ Returned(1, "Backward") /\ nBwd = 2
  /\ \E id \in Units : \E k \in Trainable(1, id) :
       /\ k \in DOMAIN buf[1][opt[id]]
       /\ W[1][id][k].Data # Built(archArg, seed).W[id][k].Data

(***************************************************************************)
(* Each unit writes its own state only.                                    *)
(***************************************************************************)
\* P2 is P with nothing but cached inputs rewritten.
OnlyCache(P, P2) ==
  /\ DOMAIN P2 = DOMAIN P
  /\ \A k \in DOMAIN P : P2[k] = [P[k] EXCEPT !.value = P2[k].value]

\* P2 is P with nothing but the accumulator of key k changed.
OnlyGradAt(P, P2, k) ==
  /\ DOMAIN P2 = DOMAIN P
  /\ \A x \in DOMAIN P : P2[x] = IF x = k THEN [P[x] EXCEPT !.grad = P2[x].grad] ELSE P[x]

\* If the parameters, the activation cache or the optimizer buffers of unit
\* id change in this step, the unit itself has moved, and the change is one
\* its own statement at that position makes: a receive of Forward caches
\* the input and, at the last one, the pre-activation; a turn of the
\* parameter loop adds to one accumulator; Step updates the parameters and
\* the buffers.  Sends and the receives of Backward write none of them.
OwnWrite(r, id) ==
  LET l  == loc[r][id]
      l2 == loc'[r][id]
      sameW == W'[r][id] = W[r][id]
      sameR == relu'[r][id] = relu[r][id]
      sameB == buf'[r][opt[id]] = buf[r][opt[id]]
  IN  ~(sameW /\ sameR /\ sameB) =>
        /\ l2 # l
        /\ CASE l.pc = "forward"  -> OnlyCache(W[r][id], W'[r][id]) /\ sameB
             [] l.pc = "backprop" -> OnlyGradAt(W[r][id], W'[r][id], l.cur) /\ sameR /\ sameB
             [] l.pc = "step"     -> sameR /\ SameKeys(r, id)
             [] OTHER -> FALSE

\* C27: every action of a unit's actor changes only that unit's own
\* parameters, gradient accumulators, cached inputs and activation cache;
\* the state of every other unit is left unchanged, the only effect across
\* units being the signal handed over a channel.
C27_OwnStateOnly ==
  [][started => \A r \in runs : \A id \in Units : OwnWrite(r, id)]_vars

\* A unit with two upstream peers has cached two different inputs, added to
\* the accumulators of both weights and stands in its parameter loop while
\* a peer still waits for its gradient.
C27_Witness ==
  \E r \in runs : \E id \in Units : \E p, q \in Upstream(id) :
    /\ loc[r][id].pc = "backprop" /\ p \notin loc[r][id].todo /\ q \in loc[r][id].todo
    /\ W[r][id][p].grad # 0 /\ W[r][id][p].value # W[r][id][q].value
    /\ loc[r][q].pc = "backward"

(***************************************************************************)
(* Between passes.                                                         *)
(***************************************************************************)
\* The unit at l is parked in the first receive of Unit.forward: it runs,
\* has taken nothing yet and offers no send.
Parked(l) == l.pc = "forward" /\ l.ii = 0 /\ l.todo = {} /\ l.cur = NoKey

\* C28: whenever a full pass has completed (Backward with its barrier has
\* returned) and the caller issues nothing further, every unit is parked in
\* the first receive of its next Forward stage, no signal is in flight on
\* any forward, backward, output or completion channel, and no unit has
\* terminated.
C28_ParkedBetweenPasses ==
  /\ [](\A r \in runs : Returned(r, "Backward") =>
          \A id \in Units : /\ Parked(loc[r][id])
                             /\ loc[r][id].step = nBwd + 1
                             /\ reported[r][id] = nBwd)
  /\ [][\A r \in runs : (Returned(r, "Backward") /\ cpc'[r] = "idle") =>
          UNCHANGED <<unitVars, cidx, started>>]_vars

\* The second pass is done and the caller is idle.
C28_Witness ==
  /\ Returned(1, "Backward") /\ nBwd = 2 /\ nFwd = 2 /\ prevRet # "panic"
  /\ \A id \in Units : Parked(loc[1][id]) /\ reported[1][id] = 2

(***************************************************************************)
(* What the Forward stage computes.                                        *)
(***************************************************************************)
RECURSIVE FiredSum(_, _, _)
\* The sum over the peers in keys of weight[peer] times the value that peer
\* holds as fired.
FiredSum(r, id, keys) ==
  IF keys = {} THEN 0
  ELSE LET p == CHOOSE x \in keys : TRUE
       IN  W[r][id][p].Data * loc[r][p].act + FiredSum(r, id, keys \ {p})

\* A hidden or output unit that has received all its signals holds the
\* activation of bias + sum of weight[peer] * value fired by the peer in
\* this pass, each value cached under the peer's id.
FiredOk(r, id) ==
  LET l   == loc[r][id]
      pre == W[r][id][biasID].Data + FiredSum(r, id, Upstream(id))
  IN  /\ \A p \in Upstream(id) :
           PassAt(loc[r][p]) = PassAt(l) /\ W[r][id][p].value = loc[r][p].act
      /\ l.act = IF activ[id] = "Relu" THEN Max(pre, 0) ELSE pre
      /\ activ[id] = "Relu" => relu[r][id] = pre
      /\ activ[id] = (IF outputID \in DOMAIN output[id] THEN "Identity" ELSE "Relu")

\* A send of the firing unit id in this step: to a downstream peer, which
\* takes the value under this unit's id, or to the caller of Net.Forward on
\* the one output channel; the send loop starts with every key of u.output
\* and ends with the keys used up.
SendOk(r, id) ==
  LET l  == loc[r][id]
      l2 == loc'[r][id]
  IN  /\ (l.pc = "forward" /\ l2.pc = "fire") => l2.todo = DOMAIN output[id] /\ l2.cur \in l2.todo
      /\ (l.pc = "fire" /\ l2 # l) =>
           /\ l.cur \in l.todo
           /\ l2.pc = "fire" => l2.act = l.act /\ l2.todo = l.todo \ {l.cur}
           /\ l2.pc # "fire" => l.todo = {l.cur}
           /\ IF l.cur = outputID
                 THEN /\ DOMAIN output[id] = {outputID}
                      /\ outv'[r][cidx[r] + 1] = l.act
                      /\ Layers[Len(Layers)][cidx[r] + 1] = id
                 ELSE /\ l.cur \in Downstream(id)
                      /\ loc[r][l.cur].pc = "forward"
                      /\ loc'[r][l.cur].ii = loc[r][l.cur].ii + 1
                      /\ W'[r][l.cur][id].value = l.act

\* C29: the Forward stage of a hidden or output unit computes
\* pre-activation = bias + sum over upstream peers of weight[peer] * value
\* received from that peer, overwrites the cached input of each peer with
\* the value received in this pass, and sends activation(pre-activation),
\* max(x, 0) for hidden and identity for output, under its own id once to
\* every downstream peer; an output unit sends once, to its external
\* output channel.
C29_ForwardComputes ==
  /\ [](\A r \in runs : \A id \in Units :
          (Upstream(id) # {} /\ loc[r][id].pc = "fire") => FiredOk(r, id))
  /\ [][\A r \in runs : \A id \in Units : Upstream(id) # {} => SendOk(r, id)]_vars

\* In the second pass an output unit fires a non-zero value built from two
\* hidden peers, one of which had a negative pre-activation and fired 0.
C29_Witness ==
  \E r \in runs : \E o \in Units : \E h \in Upstream(o) :
    /\ outputID \in DOMAIN output[o] /\ Cardinality(Upstream(o)) = 2
    /\ loc[r][o].pc = "fire" /\ PassAt(loc[r][o]) = 2 /\ loc[r][o].act # 0
    /\ activ[h] = "Relu" /\ relu[r][h] < 0 /\ loc[r][h].act = 0

(***************************************************************************)
(* What the Backward stage computes.                                       *)
(***************************************************************************)
\* No unit other than those in ids moves in this step.
OthersStill(r, ids) == \A x \in Units \ ids : loc'[r][x] = loc[r][x] /\ W'[r][x] = W[r][x]

\* A turn of the parameter loop of a hidden or output unit at key k with
\* gradient g: g * cachedInput[k] is added to the accumulator of k (the
\* bias holds the cached input 1, so g is added), nothing else of the unit
\* changes, and when k is an upstream peer that peer takes one signal of
\* value g * weight[k]; at the bias nothing is sent.
TurnOk(r, id) ==
  LET l  == loc[r][id]
      k  == l.cur
      g  == l.grad
      P  == W[r][id]
      P2 == W'[r][id]
  IN  /\ k \in l.todo /\ l.todo \subseteq Upstream(id) \cup {biasID}
      /\ OnlyGradAt(P, P2, k)
      /\ P2[k].grad = P[k].grad + g * (IF k = biasID THEN 1 ELSE P[k].value)
      /\ loc'[r][id].pc = "backprop" =>
           loc'[r][id].grad = g /\ loc'[r][id].todo = l.todo \ {k}
      /\ loc'[r][id].pc # "backprop" => l.todo = {k}
      /\ IF k = biasID THEN OthersStill(r, {id})
         ELSE /\ OthersStill(r, {id, k})
              /\ loc[r][k].pc = "backward"
              /\ loc'[r][k].ii = loc[r][k].ii + 1
              /\ GradAfter(r, k, loc'[r][k], g * P[k].Data)

\* A turn of the parameter loop of an input unit: no parameter or
\* accumulator changes and no other unit or the caller takes anything.
InputTurnOk(r, id) ==
  /\ W'[r][id] = W[r][id]
  /\ OthersStill(r, {id})
  /\ UNCHANGED <<callerVars, buf>>

\* C30: the Backward stage of a hidden or output unit, with g the incoming
\* gradient after the activation's derivative, adds g * cachedInput[peer]
\* to the accumulator of each upstream weight, sends exactly one signal of
\* value g * weight[peer] to each upstream peer and adds g to the bias
\* accumulator; an input unit sends nothing upstream and changes no
\* parameter or accumulator.
C30_BackwardComputes ==
  [][\A r \in runs : \A id \in Units :
       LET l == loc[r][id]  l2 == loc'[r][id]
       IN  /\ (l.pc = "backward" /\ l2.pc = "backprop") =>
                /\ l2.todo = DOMAIN W[r][id]
                /\ (activ[id] = "Relu" /\ relu[r][id] <= 0) => l2.grad = 0
                /\ W'[r][id] = W[r][id]
           /\ (l.pc = "backprop" /\ l2 # l) =>
                IF Upstream(id) # {} THEN TurnOk(r, id) ELSE InputTurnOk(r, id)]_vars

\* In the second pass an output unit with two upstream peers has a non-zero
\* gradient, has added to the bias accumulator and to a weight's, and an
\* input unit stands in its own parameter loop.
C30_Witness ==
  \E r \in runs : \E o, i \in Units : \E p \in Upstream(o) :
    /\ Cardinality(Upstream(o)) = 2 /\ PassAt(loc[r][o]) = 2
    /\ loc[r][o].grad # 0 /\ W[r][o][biasID].grad # 0 /\ W[r][o][p].grad # 0
    /\ W[r][o][p].Data # 1
    /\ Upstream(i) = {} /\ loc[r][i].pc = "backprop" /\ PassAt(loc[r][i]) = 2

(***************************************************************************)
(* The input units.                                                        *)
(***************************************************************************)
\* The input units, in the order Net.Forward feeds them.
InputUnits == Layers[1]

\* Input unit number i: its one parameter is as feedIn left it; while it
\* sends it holds the i-th value of the call, having taken one signal.
InputHolds(r, i) ==
  LET id == InputUnits[i]
      l  == loc[r][id]
  IN  /\ W[r][id] = [k \in {inputID} |-> NewParam(InputWeight, FALSE)]
      /\ nin[id] = 1 /\ activ[id] = "Identity" /\ DOMAIN output[id] = LayerIds(2)
      /\ l.pc = "fire" =>
           /\ cpc[r] \in {"feed", "collect"} /\ Len(cdata) = Len(InputUnits)
           /\ l.act = cdata[i] /\ l.ii = 1

\* A step of input unit number i: its receive takes the caller's i-th
\* value and starts the send loop over the whole next layer; each send
\* hands that value to a unit of the next layer under this unit's id.
InputStep(r, i) ==
  LET id == InputUnits[i]
      l  == loc[r][id]
      l2 == loc'[r][id]
  IN  /\ (l.pc = "forward" /\ l2 # l) =>
           /\ cpc[r] = "feed" /\ cidx[r] + 1 = i
           /\ l2.pc = "fire" /\ l2.act = cdata[i] /\ l2.todo = LayerIds(2)
      /\ (l.pc = "fire" /\ l2 # l) =>
           /\ l.cur \in LayerIds(2) /\ l.cur \in l.todo
           /\ loc'[r][l.cur].ii = loc[r][l.cur].ii + 1
           /\ W'[r][l.cur][id].value = l.act
           /\ l2.pc = "fire" => l2.todo = l.todo \ {l.cur} /\ l2.act = l.act
           /\ l2.pc # "fire" => l.todo = {l.cur}

\* C31: an input unit is a pure pass-through: in each pass it receives
\* exactly one external value and sends exactly that value, under its id,
\* to every unit of the first hidden layer; it has no bias, and its single
\* input parameter (value 1, not trainable) never changes.
C31_InputPassThrough ==
  /\ [](started => \A r \in runs : \A i \in 1 .. Len(InputUnits) : InputHolds(r, i))
  /\ [][started => \A r \in runs : \A i \in 1 .. Len(InputUnits) : InputStep(r, i)]_vars

\* In the second pass, after a Step, an input unit has passed a negative
\* value to one hidden unit and is about to send it to the other.
C31_Witness ==
  \E r \in runs : \E h \in LayerIds(2) :
    /\ nFwd = 2 /\ updateFreq = 1 /\ train
    /\ loc[r][InputUnits[1]].pc = "fire" /\ loc[r][InputUnits[1]].act < 0
    /\ loc[r][InputUnits[1]].todo = LayerIds(2) \ {h}
    /\ loc[r][InputUnits[1]].todo # {}
    /\ W[r][h][InputUnits[1]].value = loc[r][InputUnits[1]].act

(***************************************************************************)
(* SGD.Step.                                                               *)
(***************************************************************************)
\* C32: SGD.Step on a trainable parameter computes g = grad +
\* WeightDecay*Data when WeightDecay > 0 (else g = grad); when Momentum > 0
\* it sets the buffer for that id to g on the first Step for the id and to
\* Momentum*buffer + g on later Steps and uses the buffer as the update,
\* otherwise it uses g and leaves the buffer untouched; it then subtracts
\* Lr*update from Data and resets grad to zero.
C32_SGDStep ==
  [][(sgd'.n = sgd.n + 1 /\ sgd.p.RequiresGrad) =>
       LET o == sgd.o
           g == IF o.WeightDecay > 0 THEN sgd.p.grad + o.WeightDecay * sgd.p.Data
                ELSE sgd.p.grad
           first == stepID \notin DOMAIN sgd.buf
           upd == IF o.Momentum > 0
                    THEN (IF first THEN g ELSE o.Momentum * sgd.buf[stepID] + g)
                    ELSE g
       IN  /\ sgd'.p = [sgd.p EXCEPT !.Data = sgd.p.Data - o.Lr * upd, !.grad = 0]
           /\ o.Momentum > 0 => sgd'.buf = [k \in {stepID} |-> upd]
           /\ o.Momentum = 0 => sgd'.buf = sgd.buf
           /\ sgd'.o = o]_vars

\* A second Step with momentum and weight decay, on a new gradient, has
\* moved the parameter by a buffer built from both Steps.
C32_Witness ==
  /\ sgd.n = 2 /\ sgd.p.RequiresGrad /\ sgd.o.Momentum > 0 /\ sgd.o.WeightDecay > 0
  /\ stepID \in DOMAIN sgd.buf0 /\ sgd.buf0[stepID] # 0 /\ sgd.p0.grad # 0
  /\ sgd.buf[stepID] # sgd.buf0[stepID] /\ sgd.p.Data # sgd.p0.Data /\ sgd.p.grad = 0

(***************************************************************************)
(* The activations.                                                        *)
(***************************************************************************)
\* C33: Relu.Forward(x) returns max(x, 0) and records x; Relu.Backward(g)
\* returns g when the most recently recorded Forward input is > 0 and 0
\* when it is <= 0, for every g; Identity returns its argument unchanged in
\* both directions.
C33_Activations ==
  /\ (av.a = "Relu" /\ av.op = "Forward") =>
       av.ret = (IF av.arg > 0 THEN av.arg ELSE 0) /\ av.cached = av.arg
  /\ (av.a = "Relu" /\ av.fwd) => av.cached = av.lastX
  /\ (av.a = "Relu" /\ av.op = "Backward" /\ av.fwd) =>
       av.ret = (IF av.lastX > 0 THEN av.arg ELSE 0)
  /\ (av.a = "Identity" /\ av.op # "none") => av.ret = av.arg

\* Relu.Backward has returned 0 for a non-zero gradient after a Forward of
\* exactly 0.
C33_Witness ==
  /\ av.a = "Relu" /\ av.op = "Backward" /\ av.fwd
  /\ av.lastX = 0 /\ av.arg # 0 /\ av.ret = 0

(***************************************************************************)
(* Failures.                                                               *)
(***************************************************************************)
\* The positions of a unit that runs or waits; the only other one is the
\* panic of Unit.step.
NormalPcs == {"off", "forward", "fire", "backward", "backprop", "step", "stepDone"}

RECURSIVE EdgesBefore(_)
EdgesBefore(ii) ==
  IF ii <= 1 THEN 0 ELSE EdgesBefore(ii - 1) + Len(Layers[ii - 1]) * Len(Layers[ii])

\* The place in the stream of the connection from unit j1 of layer ii to
\* unit j2 of the next layer: layer first, then upstream unit, then
\* downstream unit.
EdgeDraw(ii, j1, j2) == EdgesBefore(ii) + (j1 - 1) * Len(Layers[ii + 1]) + (j2 - 1)

\* C35: the weight stream is read only while NewMLP connects the layers, one
\* value per connection in the order layer, upstream unit, downstream unit:
\* once the network is built nothing takes a value from it, so every
\* connection's weight is the value its place in the stream gives, the same
\* for the same seed.
C35_WeightStream ==
  /\ [](/\ draws = EdgesBefore(Len(Layers))
        /\ nBwd = 0 =>
             \A r \in runs : \A ii \in 1 .. Len(Layers) - 1 :
               \A j1 \in 1 .. Len(Layers[ii]) : \A j2 \in 1 .. Len(Layers[ii + 1]) :
                 W[r][Layers[ii + 1][j2]][Layers[ii][j1]].Data
                   = seed[(EdgeDraw(ii, j1, j2) % Len(seed)) + 1])
  /\ [][draws' = draws /\ seed' = seed]_vars

\* Two input units feed one hidden unit with different weights, the
\* network has been started and a Forward has returned.
C35_Witness ==
  /\ Len(Layers[1]) = 2 /\ started /\ nFwd = 1 /\ nBwd = 0
  /\ Returned(1, "Forward")
  /\ W[1][Layers[2][1]][Layers[1][1]].Data # W[1][Layers[2][1]][Layers[1][2]].Data
  /\ draws = 4

(***************************************************************************)
(* Parameters that take no gradient.                                       *)
(***************************************************************************)
\* The parameters of unit id with RequiresGrad = false.
Fixed(r, id) == DOMAIN W[r][id] \ Trainable(r, id)

\* C36: a parameter with RequiresGrad = false is changed by nothing: no
\* Forward, Backward or Step changes its Data, its cached value or its
\* accumulated gradient, and Step leaves no momentum buffer for it.
C36_FixedParamUntouched ==
  /\ [](\A r \in runs : \A id \in Units : \A k \in Fixed(r, id) :
          k \notin DOMAIN buf[r][opt[id]])
  /\ [][\A r \in runs : \A id \in Units : \A k \in Fixed(r, id) :
          W'[r][id][k] = W[r][id][k]]_vars

\* An input unit has been through a Forward, a Backward and its Step, under
\* an optimizer with momentum and weight decay.
C36_Witness ==
  /\ started /\ train /\ optArg.WeightDecay > 0 /\ optArg.Momentum > 0
  /\ nFwd >= 1 /\ nBwd >= 1
  /\ loc[1][InputUnits[1]].pc = "stepDone"
  /\ Fixed(1, InputUnits[1]) = {inputID}

(***************************************************************************)
(* Weights within a pass.                                                  *)
(***************************************************************************)
\* The Data of every parameter of unit id.
DataOf(w) == [k \in DOMAIN w |-> w[k].Data]

\* C37: the Data of a unit's parameters changes only in that unit's own
\* Step; every step the unit takes in its Forward or Backward stage, and
\* every step of another unit or of the caller, leaves them as they were, so
\* the gradient sent upstream is made with the weights of that pass's Forward.
C37_WeightsFixedInPass ==
  [][\A r \in runs : \A id \in Units :
       DataOf(W'[r][id]) # DataOf(W[r][id]) =>
         /\ loc[r][id].pc = "step" /\ loc'[r][id].pc = "stepDone"
         /\ \A id2 \in Units \ {id} :
              W'[r][id2] = W[r][id2] /\ loc'[r][id2] = loc[r][id2]]_vars

\* In the first pass an output unit has moved a weight in its Step while a
\* unit upstream is still in its Backward stage with the weights it was
\* built with.
C37_Witness ==
  \E id \in LayerIds(Len(Layers)) : \E id2 \in Units \ LayerIds(Len(Layers)) :
    /\ nBwd = 1 /\ train /\ updateFreq = 1
    /\ loc[1][id].pc = "stepDone"
    /\ DataOf(W[1][id]) # DataOf(Built(archArg, seed).W[id])
    /\ loc[1][id2].pc \in {"backward", "backprop"}
    /\ Trainable(1, id2) # {}
    /\ DataOf(W[1][id2]) = DataOf(Built(archArg, seed).W[id2])

(***************************************************************************)
(* Two Forward calls in a row while training.                              *)
(***************************************************************************)
\* Every unit of run r is parked at the first receive of Unit.backward.
AllAtBackward(r) == \A id \in Units : loc[r][id].pc = "backward" /\ loc[r][id].ii = 0

\* A valid Forward has been called after a Forward that returned, with no
\* Backward between them, training being on.
SecondForward == train /\ nFwd > nBwd + 1

\* C38: with train = true a second Forward issued after a Forward has
\* returned and before any Backward never returns.  The only step into a
\* state with two more Forward than Backward calls is that call itself; it
\* changes no unit and leaves the caller at its first send to an input unit,
\* the call pending, every unit parked at the first receive of its Backward
\* stage; and no step leaves such a state, so no unit processes the input
\* and no weight, gradient accumulator or completion count changes.
C38_SecondForwardBlocks ==
  /\ [](SecondForward =>
          \A r \in runs : /\ cpc[r] = "feed" /\ cidx[r] = 0 /\ ret[r] = "pending"
                          /\ AllAtBackward(r))
  /\ [][/\ ~SecondForward
        /\ SecondForward' => nFwd = nBwd + 1 /\ Idle /\ UNCHANGED unitVars]_vars

\* The second Forward in a row has been called on a trained network whose
\* first Forward returned its outputs.
C38_Witness ==
  /\ train /\ nFwd = 2 /\ nBwd = 0 /\ prevRet = "Forward"
  /\ cpc[1] = "feed" /\ cidx[1] = 0 /\ ret[1] = "pending"
  /\ AllAtBackward(1) /\ \A id \in Units : reported[1][id] = 0

(***************************************************************************)
(* The units with buffered channels (unit.go:1-329) and their Net.         *)
(* NewHiddenUnit, NewInputUnit and NewOutputUnit make every Signal channel *)
(* with room for BufCap signals and every float64 channel with room for    *)
(* FloatCap values; a send waits only while the channel is full.  A        *)
(* channel is the sequence of the senders of the signals queued in it.     *)
(* The values the signals carry, the weights and the gradients are left    *)
(* out: no receive, send or loop of these units depends on them.           *)
(*   uloc[id].pc is  "off"       not launched                              *)
(*                   "forward"   at the receive of Forward (need: the      *)
(*                               needRecv map)                             *)
(*                   "fire"      at a send of Forward (todo: keys left)    *)
(*                   "backward"  at the receive of Backward                *)
(*                   "backprop"  at a send of Backward                     *)
(*                   "step"      before u.Step(lr)                         *)
(***************************************************************************)
BufCap == 512
FloatCap == 1

\* Architectures of the buffered Net.
BufArchs == {<<2, 1, 2>>, <<1, 2, 1>>, <<2, 2, 1>>, <<1, 1, 1, 1>>}

\* Start(train, updateFreq, lr) as the buffered Net is started.
BufStartInputs == {<<TRUE, 1>>, <<TRUE, 2>>, <<TRUE, 0>>, <<FALSE, 1>>}

BufLayers == MakeLayers(bnet.Arch)
BufUnits == UNION {Ids(BufLayers[i]) : i \in 1 .. Len(BufLayers)}
LayerOf(id) == CHOOSE i \in 1 .. Len(BufLayers) : id \in Ids(BufLayers[i])
IsInput(id) == LayerOf(id) = 1
IsOutput(id) == LayerOf(id) = Len(BufLayers)

\* The keys of u.Weight: the units FeedIn, Connect and FeedOut wired in.
WeightKeys(id) == IF IsInput(id) THEN {} ELSE Ids(BufLayers[LayerOf(id) - 1])

\* The keys of u.Output (a map for input and hidden units).
OutputKeys(id) == IF IsOutput(id) THEN {} ELSE Ids(BufLayers[LayerOf(id) + 1])

\* A faulty receive loop that stops waiting at the first signal.
ReceivedAny(need, id) == {}

\* delete(needRecv, s.ID)
Received(need, id) == need \ {id}

\* The top of Forward: needRecv holds every key of u.Weight.
TopOfForward(id, step) ==
  [pc |-> "forward", need |-> WeightKeys(id), todo |-> {}, step |-> step]

\* start() after u.Forward(): Backward when training, else step++.
LeaveForward(id, l) ==
  IF bnet.train THEN [l EXCEPT !.pc = "backward", !.need = OutputKeys(id), !.todo = {}]
  ELSE TopOfForward(id, l.step + 1)

\* start() after u.Backward(): Step when due, else step++.
LeaveBackward(id, l) ==
  IF StepDue(l.step, bnet.updateFreq) THEN [l EXCEPT !.pc = "step", !.need = {}, !.todo = {}]
  ELSE TopOfForward(id, l.step + 1)

\* NewMLP(arch) has returned: every channel is empty, nothing runs.
InitBuf ==
  /\ archArg = <<>> /\ optArg = [Lr |-> 1, Momentum |-> 0, WeightDecay |-> 0]
  /\ seed = <<1, -1, 2, 1>>
  /\ loss = NoLoss /\ sgd = NoSgd /\ av = NoAv
  /\ Unbuilt
  /\ \E a \in BufArchs :
       bnet = [Arch |-> a, started |-> FALSE, train |-> FALSE, updateFreq |-> 0]
  /\ Input = [id \in BufUnits |-> <<>>] /\ InputB = [id \in BufUnits |-> <<>>]
  /\ Output = [id \in Ids(BufLayers[Len(BufLayers)]) |-> <<>>]
  /\ OutputB = [id \in Ids(BufLayers[1]) |-> <<>>]
  /\ uloc = [id \in BufUnits |-> [pc |-> "off", need |-> {}, todo |-> {}, step |-> 1]]
  /\ caller = [pc |-> "idle", idx |-> 0, op |-> "Forward", n |-> 0, ret |-> "none"]

\* Everything but the buffered Net.
restVars == <<archArg, optArg, seed, draws, net, Arch, Layers, nin, activ, output, outputB, opt,
              loss, sgd, av, startVars, runs, unitVars, callerVars, ghostVars>>

\* Net.Start: go start(u, train, updateFreq, lr) for every unit.
BufStart ==
  /\ ~bnet.started /\ caller.pc = "idle"
  /\ \E c \in BufStartInputs :
       bnet' = [bnet EXCEPT !.started = TRUE, !.train = c[1], !.updateFreq = c[2]]
  /\ uloc' = [id \in BufUnits |-> TopOfForward(id, 1)]
  /\ UNCHANGED <<Input, InputB, Output, OutputB, caller, restVars>>

\* s := <-u.Input in Forward.  An input unit takes its one value; the others
\* go on until needRecv is empty.
UnitForwardRecv(id) ==
  LET l == uloc[id]
      need == IF IsInput(id) THEN {} ELSE Received(l.need, Head(Input[id]))
  IN  /\ l.pc = "forward" /\ Input[id] # <<>>
      /\ Input' = [Input EXCEPT ![id] = Tail(@)]
      /\ uloc' = [uloc EXCEPT ![id] =
                    IF need = {} THEN [l EXCEPT !.pc = "fire", !.need = {}, !.todo = OutputKeys(id)]
                    ELSE [l EXCEPT !.need = need]]
      /\ UNCHANGED <<bnet, InputB, Output, OutputB, caller, restVars>>

\* u.Output[k] <- Signal{...} for a key k of the range, in any order.
UnitForwardSend(id) ==
  LET l == uloc[id]
  IN  /\ l.pc = "fire" /\ ~IsOutput(id)
      /\ \E k \in l.todo :
           /\ Len(Input[k]) < BufCap
           /\ Input' = [Input EXCEPT ![k] = Append(@, id)]
           /\ uloc' = [uloc EXCEPT ![id] =
                         IF l.todo = {k} THEN LeaveForward(id, l) ELSE [l EXCEPT !.todo = @ \ {k}]]
      /\ UNCHANGED <<bnet, InputB, Output, OutputB, caller, restVars>>

\* u.Output <- u.preact of an output unit.
UnitForwardOut(id) ==
  LET l == uloc[id]
  IN  /\ l.pc = "fire" /\ IsOutput(id)
      /\ Len(Output[id]) < FloatCap
      /\ Output' = [Output EXCEPT ![id] = Append(@, id)]
      /\ uloc' = [uloc EXCEPT ![id] = LeaveForward(id, l)]
      /\ UNCHANGED <<bnet, Input, InputB, OutputB, caller, restVars>>

\* s := <-u.InputB in Backward.  An output unit takes its one gradient; the
\* others go on until needRecv is empty.  A unit without weights has no
\* parameter loop and goes on to its single send.
UnitBackwardRecv(id) ==
  LET l == uloc[id]
      need == IF IsOutput(id) THEN {} ELSE Received(l.need, Head(InputB[id]))
  IN  /\ l.pc = "backward" /\ InputB[id] # <<>>
      /\ InputB' = [InputB EXCEPT ![id] = Tail(@)]
      /\ uloc' = [uloc EXCEPT ![id] =
                    IF need = {} THEN [l EXCEPT !.pc = "backprop", !.need = {}, !.todo = WeightKeys(id)]
                    ELSE [l EXCEPT !.need = need]]
      /\ UNCHANGED <<bnet, Input, Output, OutputB, caller, restVars>>

\* u.OutputB[k] <- Signal{...} for a key k of the range over u.Weight.
UnitBackwardSend(id) ==
  LET l == uloc[id]
  IN  /\ l.pc = "backprop" /\ ~IsInput(id)
      /\ \E k \in l.todo :
           /\ Len(InputB[k]) < BufCap
           /\ InputB' = [InputB EXCEPT ![k] = Append(@, id)]
           /\ uloc' = [uloc EXCEPT ![id] =
                         IF l.todo = {k} THEN LeaveBackward(id, l) ELSE [l EXCEPT !.todo = @ \ {k}]]
      /\ UNCHANGED <<bnet, Input, Output, OutputB, caller, restVars>>

\* u.OutputB <- grad of an input unit.
UnitBackwardOut(id) ==
  LET l == uloc[id]
  IN  /\ l.pc = "backprop" /\ IsInput(id)
      /\ Len(OutputB[id]) < FloatCap
      /\ OutputB' = [OutputB EXCEPT ![id] = Append(@, id)]
      /\ uloc' = [uloc EXCEPT ![id] = LeaveBackward(id, l)]
      /\ UNCHANGED <<bnet, Input, InputB, Output, caller, restVars>>

\* u.Step(lr), then step++.
UnitStepLr(id) ==
  /\ uloc[id].pc = "step"
  /\ uloc' = [uloc EXCEPT ![id] = TopOfForward(id, uloc[id].step + 1)]
  /\ UNCHANGED <<bnet, Input, InputB, Output, OutputB, caller, restVars>>

\* The caller enters Forward or Backward, in turn, with an argument of
\* length n; a wrong length panics before anything is sent.  caller.n
\* counts the Forward calls that passed the check.
NetCall ==
  /\ caller.pc = "idle"
  /\ caller.op = "Forward" => caller.n < MaxPass
  /\ LET want == IF caller.op = "Forward" THEN bnet.Arch[1] ELSE bnet.Arch[Len(bnet.Arch)]
     IN  \E n \in {want, want + 1} :
           caller' = IF n # want THEN [caller EXCEPT !.ret = "panic"]
                     ELSE [caller EXCEPT !.pc = IF caller.op = "Forward" THEN "feed" ELSE "feedB",
                                         !.idx = 0, !.ret = "pending",
                                         !.n = IF caller.op = "Forward" THEN @ + 1 ELSE @]
  /\ UNCHANGED <<bnet, Input, InputB, Output, OutputB, uloc, restVars>>

\* n.InLayer[ii].Input <- v
NetFeed ==
  LET id == BufLayers[1][caller.idx + 1]
  IN  /\ caller.pc = "feed"
      /\ Len(Input[id]) < FloatCap
      /\ Input' = [Input EXCEPT ![id] = Append(@, "caller")]
      /\ caller' = IF caller.idx + 1 < bnet.Arch[1] THEN [caller EXCEPT !.idx = @ + 1]
                    ELSE [caller EXCEPT !.pc = "collect", !.idx = 0]
      /\ UNCHANGED <<bnet, InputB, Output, OutputB, uloc, restVars>>

\* output[ii] = <-n.OutLayer[ii].Output; after the last one Forward returns.
NetCollect ==
  LET id == BufLayers[Len(BufLayers)][caller.idx + 1]
  IN  /\ caller.pc = "collect"
      /\ Output[id] # <<>>
      /\ Output' = [Output EXCEPT ![id] = Tail(@)]
      /\ caller' = IF caller.idx + 1 < bnet.Arch[Len(bnet.Arch)] THEN [caller EXCEPT !.idx = @ + 1]
                    ELSE [caller EXCEPT !.pc = "idle", !.idx = 0, !.ret = "Forward",
                                        !.op = "Backward"]
      /\ UNCHANGED <<bnet, Input, InputB, OutputB, uloc, restVars>>

\* n.OutLayer[ii].InputB <- v
NetFeedB ==
  LET id == BufLayers[Len(BufLayers)][caller.idx + 1]
  IN  /\ caller.pc = "feedB"
      /\ Len(InputB[id]) < FloatCap
      /\ InputB' = [InputB EXCEPT ![id] = Append(@, "caller")]
      /\ caller' = IF caller.idx + 1 < bnet.Arch[Len(bnet.Arch)] THEN [caller EXCEPT !.idx = @ + 1]
                    ELSE [caller EXCEPT !.pc = "collectB", !.idx = 0]
      /\ UNCHANGED <<bnet, Input, Output, OutputB, uloc, restVars>>

\* gradData[ii] = <-n.InLayer[ii].OutputB; after the last one Backward returns.
NetCollectB ==
  LET id == BufLayers[1][caller.idx + 1]
  IN  /\ caller.pc = "collectB"
      /\ OutputB[id] # <<>>
      /\ OutputB' = [OutputB EXCEPT ![id] = Tail(@)]
      /\ caller' = IF caller.idx + 1 < bnet.Arch[1] THEN [caller EXCEPT !.idx = @ + 1]
                    ELSE [caller EXCEPT !.pc = "idle", !.idx = 0, !.ret = "Backward",
                                        !.op = "Forward"]
      /\ UNCHANGED <<bnet, Input, InputB, Output, uloc, restVars>>

NextBuf ==
  \/ BufStart
  \/ NetCall \/ NetFeed \/ NetCollect \/ NetFeedB \/ NetCollectB
  \/ \E id \in BufUnits :
       \/ UnitForwardRecv(id) \/ UnitForwardSend(id) \/ UnitForwardOut(id)
       \/ UnitBackwardRecv(id) \/ UnitBackwardSend(id) \/ UnitBackwardOut(id)
       \/ UnitStepLr(id)

SpecBuf == InitBuf /\ [][NextBuf]_vars

\* The senders into u.Input: the upstream units, or the caller of Forward.
NumUp(id) == IF IsInput(id) THEN 1 ELSE Cardinality(WeightKeys(id))

\* The senders into u.InputB: the downstream units, or the caller of Backward.
NumDown(id) == IF IsOutput(id) THEN 1 ELSE Cardinality(OutputKeys(id))

\* C39: in the buffered units, under a caller that alternates Forward and
\* Backward, the signals queued in a unit's Input never outnumber its
\* upstream peers and those queued in its InputB never outnumber its
\* downstream peers; and whoever stands at a send into one of them finds
\* fewer signals queued than that, so a buffer of that size never makes a
\* sender wait.
C39_QueuesBounded ==
  /\ \A id \in BufUnits :
       /\ Len(Input[id]) <= NumUp(id) /\ Len(InputB[id]) <= NumDown(id)
       /\ uloc[id].pc = "fire" => \A k \in uloc[id].todo : Len(Input[k]) < NumUp(k)
       /\ uloc[id].pc = "backprop" => \A k \in uloc[id].todo : Len(InputB[k]) < NumDown(k)
  /\ caller.pc = "feed" => Input[BufLayers[1][caller.idx + 1]] = <<>>
  /\ caller.pc = "feedB" => InputB[BufLayers[Len(BufLayers)][caller.idx + 1]] = <<>>

\* In the Backward of the second pass a unit with two downstream peers has
\* the gradients of both queued, none taken yet.
C39_Witness ==
  /\ bnet.train /\ caller.n = 2 /\ caller.pc = "collectB"
  /\ \E id \in BufUnits :
       /\ NumDown(id) = 2 /\ Len(InputB[id]) = 2
       /\ uloc[id].pc = "backward" /\ uloc[id].step = 2

====
